---------------------------- MODULE Spec2Model ----------------------------
(***************************************************************************)
(* The orbital window scheme of LazyOxen/redox:                            *)
(*   src/filesystem/schemes/orbital/main.rs      Scheme, Resource          *)
(*   src/filesystem/schemes/orbital/resources.rs the sub-resource views    *)
(*   src/liborbital/window.rs                    the client's Window::poll *)
(* The scheme is driven by one synchronous caller (the "main" context,     *)
(* position pc) and by asynchronous input delivery through _event (the     *)
(* "irq" context, position epc), which can preempt the main context        *)
(* whenever interrupts are enabled (single core).  A position names the    *)
(* statement the context is executing; the step taken from it performs the *)
(* statement.                                                              *)
(***************************************************************************)
EXTENDS Integers, Sequences, FiniteSets, TLC

(* ------------------------------ bounds -------------------------------- *)
\* handle slots the caller may hold open at once
MaxHandles == 2
\* input events delivered during one run of the critical-section specification
MaxEvents == 2
\* input events delivered during one run of the event specification
MaxFifoEvents == 3
\* largest Content cursor followed once it has left the buffer
MaxSeek == 48
MaxPattern == 2
MaxPath == 3
MaxModes == 3

(* ----------------------- program constants ---------------------------- *)
\* u64::MAX of Scheme::next_id, scaled to a 2-bit counter so that TLC can
\* reach exhaustion; the comparison and the increment are the code's.
U64_MAX == 3
\* the step of the cascade placement cursor
CascadeStep == 32
\* mem::size_of::<Event>(): the fixed size of one event record
EventSize == 16
\* mem::size_of::<[u64;2]>(): the dimensions record
DimSize == 16
\* capacity of a window's pending-event store (drop-oldest on overflow)
EventCap == 2
\* extents of the display surface
DisplayWidth == 96
DisplayHeight == 64

(* ----------------------------- inputs --------------------------------- *)
\* property segment of <id>/<property>; NoProp: the segment is absent
NoProp == "<none>"
Properties == {NoProp, "content", "title", "events", "dimensions", "bogus"}
Kinds == {"window", "content", "title", "events", "dimensions"}
Ops == {"read", "write", "seek", "sync"}

NoHandle == [kind |-> "closed", id |-> 0]
Freed == [state |-> "freed"]

VARIABLES
    windows,          \* Scheme.windows: the keys of the BTreeMap
    next_window_id,   \* Scheme.next_window_id
    next_x, next_y,   \* Scheme.next_x, Scheme.next_y
    win,              \* id -> the Window object behind window_ptr, or Freed
    seek,             \* id -> ContentResource.seek of that window
    order,            \* Session: the ordered list of live windows
    handles,          \* slot -> the Resource the caller holds
    ints,             \* the interrupt-enable flag
    cs,               \* critical sections entered and not yet left
    pc, local,        \* main context: position and locals
    epc, elocal,      \* irq context: position and locals
    crashed,          \* the scheme has panicked or faulted
    ret,              \* what the last completed call returned
    created,          \* history: ids returned by successful creates
    pushed,           \* history: id -> events pushed to the window
    dropped,          \* history: id -> events discarded on overflow
    delivered,        \* history: id -> events returned by Events reads
    nevents,          \* input events dispatched so far
    redraws,          \* redraw passes of the session so far
    poll,             \* client: the Window::poll call of the client library
    packages,         \* Session.packages: the application descriptors
    ctor,             \* client: the Window::new call of the client library
    shell             \* the shell: modes, variables, what the last line did

vars == <<windows, next_window_id, next_x, next_y, win, seek, order, handles,
          ints, cs, pc, local, epc, elocal, crashed, ret, created, pushed,
          dropped, delivered, nevents, redraws, poll, packages, ctor, shell>>

schemeVars == <<windows, next_window_id, next_x, next_y>>
heapVars == <<win, seek, order>>
histVars == <<created, pushed, dropped, delivered>>
irqVars == <<epc, elocal, nevents, redraws>>
clientVars == <<poll, ctor>>
sessionVars == <<packages>>
shellVars == <<shell>>

\* the handle slots of the caller
Slots == DOMAIN handles
Min(a, b) == IF a < b THEN a ELSE b
Max(a, b) == IF a > b THEN a ELSE b

Ids == DOMAIN win
Allocated(id) == id \in Ids /\ win[id] # Freed
FreeSlots == {h \in Slots : handles[h] = NoHandle}
NewSlot == CHOOSE h \in FreeSlots : \A g \in FreeSlots : h <= g

\* the scheme after Scheme::new, its caller holding nothing in n slots
InitScheme(n) ==
    /\ windows = {}
    /\ next_window_id = 1
    /\ next_x = 0
    /\ next_y = 0
    /\ win = <<>>
    /\ seek = <<>>
    /\ order = <<>>
    /\ handles = [h \in 1..n |-> NoHandle]
    /\ ints = TRUE
    /\ cs = 0
    /\ pc = "idle"
    /\ local = [op |-> "none"]
    /\ epc = "idle"
    /\ elocal = [op |-> "none"]
    /\ crashed = FALSE
    /\ ret = [op |-> "none"]
    /\ created = <<>>
    /\ pushed = <<>>
    /\ dropped = <<>>
    /\ delivered = <<>>
    /\ nevents = 0
    /\ redraws = 0
    /\ poll = [pc |-> "idle"]
    /\ ctor = [pc |-> "idle"]
    /\ shell = [at |-> "start", modes |-> <<>>, variables |-> <<>>,
                line |-> <<>>, effect |-> "none"]

\* the packages of the session the scheme runs in: an editor of text, a
\* runner of what is under /b/, a viewer
Packages ==
    << [binary |-> "editor", accepts |-> << <<"x">>, <<"*", ".", "t">> >>],
       [binary |-> "runner", accepts |-> << <<"/", "b", "/", "*">> >>],
       [binary |-> "viewer", accepts |-> << <<"*", "t">> >>] >>

\* the scheme after Scheme::new in a session with the packages session,
\* its caller holding nothing in n slots
InitWith(n, session) ==
    /\ InitScheme(n)
    /\ packages = session

InitSlots(n) == InitWith(n, Packages)

Init == InitSlots(MaxHandles)


(* --------------------------- scheduler -------------------------------- *)
\* scheduler::start_no_ints(): disables interrupts, returns whether they
\* were enabled; scheduler::end_no_ints(reenable): enables them again only
\* if they were.
start_no_ints_ret == ints
end_no_ints(reenable) == IF reenable THEN TRUE ELSE ints

\* the main context may take a step: it is not preempted and not dead
MainRuns == ~crashed /\ epc = "idle"
Ready == MainRuns /\ pc = "idle"

(* --------------------------- Window (heap) ---------------------------- *)
\* Window::new: the object behind window_ptr.  size is content.size.
\* pixels is the content buffer, offset -> byte, the zero bytes left out.
\* wrote is history: the bytes handed to the last write of the title
Blank == [o \in {} |-> 0]

NewWindow(x, y, w, h) ==
    [x |-> x, y |-> y, w |-> w, h |-> h, title |-> <<>>,
     size |-> w * h * 4, pixels |-> Blank, events |-> <<>>, wrote |-> <<>>]

\* strong count of the Rc holding the WindowResource of id, in table t and
\* handles hs: the table's clone and every whole-window Resource
StrongCount(t, hs, id) ==
    (IF id \in t THEN 1 ELSE 0)
    + Cardinality({h \in Slots : hs[h] = [kind |-> "window", id |-> id]})

\* the heap after the Rc counts of table t and handles hs: a WindowResource
\* with no strong reference left is dropped, and with it its Box<Window>
Reclaim(t, hs) ==
    LET dead == {id \in Ids : Allocated(id) /\ StrongCount(t, hs, id) = 0}
    IN /\ win' = [id \in Ids |-> IF id \in dead THEN Freed ELSE win[id]]
       /\ order' = SelectSeq(order, LAMBDA e : e \notin dead)

(* ------------------------- Scheme::next_id ---------------------------- *)
\* the increment forgotten
next_id_reusing(n) ==
    IF n = U64_MAX
    THEN [some |-> FALSE, id |-> 0, next |-> n]
    ELSE [some |-> TRUE, id |-> n, next |-> n]

\* the exhaustion test forgotten: the counter wraps
next_id_wrapping(n) ==
    [some |-> TRUE, id |-> n, next |-> IF n = U64_MAX THEN 0 ELSE n + 1]

next_id(n) ==
    IF n = U64_MAX
    THEN [some |-> FALSE, id |-> 0, next |-> n]
    ELSE [some |-> TRUE, id |-> n, next |-> n + 1]

(* --------------------- Scheme::open, create arm ----------------------- *)
\* the wrap tested on the cursor after its advance
Cascade_advanced(cursor, extent, size) ==
    IF cursor + CascadeStep > extent - size THEN 0 ELSE cursor + CascadeStep

\* one axis of the cascade placement
Cascade(cursor, extent, size) ==
    (IF cursor > extent - size THEN 0 ELSE cursor) + CascadeStep

\* the test that asks for both coordinates to be non-positive
AutoPlaced_both(x, y) == x <= 0 /\ y <= 0

AutoPlaced(x, y) == x <= 0 \/ y <= 0

Scheme_open_create(x, y, w, h) ==
    /\ Ready
    /\ next_id(next_window_id).some => FreeSlots # {}
    /\ LET auto == AutoPlaced(x, y)
           nx == IF auto THEN Cascade(next_x, DisplayWidth, w) ELSE next_x
           ny == IF auto THEN Cascade(next_y, DisplayHeight, h) ELSE next_y
           px == IF auto THEN nx ELSE x
           py == IF auto THEN ny ELSE y
           r == next_id(next_window_id)
       IN /\ next_x' = nx
          /\ next_y' = ny
          /\ next_window_id' = r.next
          /\ IF r.some
             THEN /\ win' = (r.id :> NewWindow(px, py, w, h)) @@ win
                  /\ seek' = (r.id :> 0) @@ seek
                  /\ order' = Append(order, r.id)
                  /\ pushed' = (r.id :> <<>>) @@ pushed
                  /\ dropped' = (r.id :> {}) @@ dropped
                  /\ delivered' = (r.id :> <<>>) @@ delivered
                  /\ pc' = "insert"
                  /\ local' = [op |-> "create", id |-> r.id]
                  /\ UNCHANGED ret
             ELSE /\ ret' = [op |-> "create", some |-> FALSE]
                  /\ UNCHANGED <<win, seek, order, pushed, dropped, delivered,
                                 pc, local>>
    /\ UNCHANGED <<windows, handles, ints, cs, crashed, created>>
    /\ UNCHANGED irqVars
    /\ UNCHANGED sessionVars
    /\ UNCHANGED shellVars

OpenCreate(x, y, w, h) ==
    /\ Scheme_open_create(x, y, w, h)
    /\ UNCHANGED clientVars

\* the insertion keyed by the id counter as next_id left it
OpenCreateInsert_counter ==
    /\ MainRuns
    /\ pc = "insert"
    /\ windows' = windows \cup {next_window_id}
    /\ handles' = [handles EXCEPT ![NewSlot] = [kind |-> "window", id |-> local.id]]
    /\ created' = Append(created, local.id)
    /\ ret' = [op |-> "create", some |-> TRUE, h |-> NewSlot, id |-> local.id]
    /\ pc' = "idle"
    /\ local' = [op |-> "none"]
    /\ UNCHANGED <<next_window_id, next_x, next_y, ints, cs, crashed,
                   pushed, dropped, delivered>>
    /\ UNCHANGED heapVars
    /\ UNCHANGED irqVars
    /\ UNCHANGED clientVars
    /\ UNCHANGED sessionVars
    /\ UNCHANGED shellVars

\* self.windows.insert(id, window.clone()) and the returned Resource
Scheme_open_insert ==
    /\ MainRuns
    /\ pc = "insert"
    /\ windows' = windows \cup {local.id}
    /\ handles' = [handles EXCEPT ![NewSlot] = [kind |-> "window", id |-> local.id]]
    /\ created' = Append(created, local.id)
    /\ ret' = [op |-> "create", some |-> TRUE, h |-> NewSlot, id |-> local.id]
    /\ pc' = "idle"
    /\ local' = [op |-> "none"]
    /\ UNCHANGED <<next_window_id, next_x, next_y, ints, cs, crashed,
                   pushed, dropped, delivered>>
    /\ UNCHANGED heapVars
    /\ UNCHANGED irqVars
    /\ UNCHANGED sessionVars
    /\ UNCHANGED shellVars

OpenCreateInsert ==
    /\ Scheme_open_insert
    /\ UNCHANGED clientVars

(* ------------------ Scheme::open, the create address ------------------ *)
\* A create address is orbital:///x/y/w/h/title; path is url.path_parts(),
\* each segment a string of characters.
DigitChars == <<"0", "1", "2", "3", "4", "5", "6", "7", "8", "9">>
IsDigit(c) == \E d \in DOMAIN DigitChars : DigitChars[d] = c
DigitOf(c) == (CHOOSE d \in DOMAIN DigitChars : DigitChars[d] = c) - 1

RECURSIVE Decimal(_)
Decimal(s) ==
    IF s = <<>> THEN 0
    ELSE Decimal(SubSeq(s, 1, Len(s) - 1)) * 10 + DigitOf(s[Len(s)])

Parsable(s) == s # <<>> /\ \A i \in DOMAIN s : IsDigit(s[i])

\* ToNum::to_num: the number a segment spells, 0 for one that spells none
to_num(s) == IF Parsable(s) THEN Decimal(s) ELSE 0

\* ToNum::to_num_signed: the same after an optional "-"
to_num_signed(s) ==
    IF s # <<>> /\ s[1] = "-" THEN 0 - to_num(Tail(s)) ELSE to_num(s)

\* the four matches on path.get(0..3)
CreateArgs(path) ==
    [x |-> IF Len(path) >= 1 THEN to_num_signed(path[1]) ELSE 0,
     y |-> IF Len(path) >= 2 THEN to_num_signed(path[2]) ELSE 0,
     w |-> IF Len(path) >= 3 THEN to_num(path[3]) ELSE 100,
     h |-> IF Len(path) >= 4 THEN to_num(path[4]) ELSE 100]

\* open of a create address
OpenCreateUrl(path) ==
    LET a == CreateArgs(path) IN OpenCreate(a.x, a.y, a.w, a.h)

(* ------------------- Scheme::open, <id>[/<property>] ------------------ *)
\* the match without its `_ => None` arm
PropertyKind_fallthrough(property) ==
    IF property \in {"content", "title", "events", "dimensions"}
    THEN property
    ELSE "window"

PropertyKind(property) ==
    IF property = NoProp THEN "window"
    ELSE IF property \in {"content", "title", "events", "dimensions"}
         THEN property
         ELSE "none"

OpenRet(id, property, some, panic, h) ==
    [op |-> "open", id |-> id, property |-> property,
     present |-> id \in windows, some |-> some, panic |-> panic, h |-> h]

Scheme_open_window(id, property) ==
    /\ Ready
    /\ FreeSlots # {}
    /\ IF id \notin windows
       THEN \* self.windows[&id] panics: no entry found for key
            /\ crashed' = TRUE
            /\ ret' = OpenRet(id, property, FALSE, TRUE, 0)
            /\ UNCHANGED handles
       ELSE /\ UNCHANGED crashed
            /\ IF PropertyKind(property) = "none"
               THEN /\ ret' = OpenRet(id, property, FALSE, FALSE, 0)
                    /\ UNCHANGED handles
               ELSE /\ handles' = [handles EXCEPT ![NewSlot] =
                                     [kind |-> PropertyKind(property), id |-> id]]
                    /\ ret' = OpenRet(id, property, TRUE, FALSE, NewSlot)
    /\ UNCHANGED <<ints, cs, pc, local>>
    /\ UNCHANGED schemeVars
    /\ UNCHANGED heapVars
    /\ UNCHANGED histVars
    /\ UNCHANGED irqVars
    /\ UNCHANGED sessionVars
    /\ UNCHANGED shellVars

OpenWindow(id, property) ==
    /\ Scheme_open_window(id, property)
    /\ UNCHANGED clientVars

(* ------------------- path() and the address it names ------------------ *)
\* the name of a view, as the characters of path() and of the match on
\* the property
Spelling ==
    [content |-> <<"c", "o", "n", "t", "e", "n", "t">>,
     title |-> <<"t", "i", "t", "l", "e">>,
     events |-> <<"e", "v", "e", "n", "t", "s">>,
     dimensions |-> <<"d", "i", "m", "e", "n", "s", "i", "o", "n", "s">>]

\* format!("{}", id): the decimal digits of id
RECURSIVE Digits(_)
Digits(n) ==
    IF n < 10 THEN <<DigitChars[n + 1]>>
    ELSE Digits(n \div 10) \o <<DigitChars[(n % 10) + 1]>>

\* OrbitalResource::path of the five resources: orbital://{id}/ and
\* orbital://{id}/{view}, written here from the host on
Resource_path(h) ==
    Digits(handles[h].id) \o <<"/">>
        \o (IF handles[h].kind = "window" THEN <<>> ELSE Spelling[handles[h].kind])

\* Url::host: the characters before the first "/"
RECURSIVE url_host(_)
url_host(address) ==
    IF address = <<>> \/ address[1] = "/" THEN <<>>
    ELSE <<address[1]>> \o url_host(Tail(address))

\* the segments between the "/" of s, the empty ones left out
RECURSIVE Segments(_, _)
Segments(s, segment) ==
    IF s = <<>> THEN (IF segment = <<>> THEN <<>> ELSE <<segment>>)
    ELSE IF s[1] = "/"
    THEN (IF segment = <<>> THEN <<>> ELSE <<segment>>) \o Segments(Tail(s), <<>>)
    ELSE Segments(Tail(s), Append(segment, s[1]))

\* Url::path_parts: the segments after the host
url_path_parts(address) ==
    Segments(SubSeq(address, Len(url_host(address)) + 1, Len(address)), <<>>)

\* the match on &property[..]
PropertyOf(segment) ==
    IF \E k \in DOMAIN Spelling : Spelling[k] = segment
    THEN CHOOSE k \in DOMAIN Spelling : Spelling[k] = segment
    ELSE "bogus"

\* host.parse::<u64>() and path.get(0) of an address
AddressId(address) == Decimal(url_host(address))
AddressProperty(address) ==
    IF url_path_parts(address) = <<>> THEN NoProp
    ELSE PropertyOf(url_path_parts(address)[1])
IsWindowAddress(address) ==
    Parsable(url_host(address)) /\ AddressId(address) <= U64_MAX

\* Scheme::open of an address whose host parses as a u64
OpenAddress(address) ==
    /\ IsWindowAddress(address)
    /\ OpenWindow(AddressId(address), AddressProperty(address))

\* the client opens what path() of its handle h returns, with more
\* characters appended to the path of a whole-window handle (Window::new
\* of the client library appends the name of a view)
PathOpen(h, more) ==
    /\ handles[h] # NoHandle
    /\ more # <<>> => handles[h].kind = "window"
    /\ OpenAddress(Resource_path(h) \o more)

\* a host that is neither empty, "launch" nor a number
OpenOther ==
    /\ Ready
    /\ ret' = [op |-> "open", id |-> 0, property |-> NoProp, present |-> FALSE,
               some |-> FALSE, panic |-> FALSE, h |-> 0]
    /\ UNCHANGED <<handles, ints, cs, pc, local, crashed>>
    /\ UNCHANGED schemeVars
    /\ UNCHANGED heapVars
    /\ UNCHANGED histVars
    /\ UNCHANGED irqVars
    /\ UNCHANGED clientVars
    /\ UNCHANGED sessionVars
    /\ UNCHANGED shellVars

(* ------------------------- Drop for Resource -------------------------- *)
Resource_drop(h) ==
    /\ Ready
    /\ handles[h] # NoHandle
    /\ local' = [op |-> "drop", h |-> h, id |-> handles[h].id,
                 entry |-> ints, reenable |-> start_no_ints_ret, cs0 |-> cs,
                 present |-> handles[h].id \in windows]
    /\ ints' = FALSE
    /\ cs' = cs + 1
    /\ pc' = "drop_remove"
    /\ UNCHANGED <<handles, crashed, ret>>
    /\ UNCHANGED schemeVars
    /\ UNCHANGED heapVars
    /\ UNCHANGED histVars
    /\ UNCHANGED irqVars
    /\ UNCHANGED sessionVars
    /\ UNCHANGED shellVars

DropBegin(h) ==
    /\ Resource_drop(h)
    /\ UNCHANGED clientVars

\* the removal of the oldest entry of the table, whatever self.id is
DropRemove_oldest ==
    /\ MainRuns
    /\ pc = "drop_remove"
    /\ windows' = {id \in windows : \E older \in windows : older < id}
    /\ Reclaim(windows', handles)
    /\ pc' = "drop_end"
    /\ UNCHANGED <<next_window_id, next_x, next_y, seek, handles, ints, cs,
                   local, crashed, ret>>
    /\ UNCHANGED histVars
    /\ UNCHANGED irqVars
    /\ UNCHANGED clientVars
    /\ UNCHANGED sessionVars
    /\ UNCHANGED shellVars

\* (*windows_map).remove(&self.id)
Resource_drop_remove ==
    /\ MainRuns
    /\ pc = "drop_remove"
    /\ windows' = windows \ {local.id}
    /\ Reclaim(windows', handles)
    /\ pc' = "drop_end"
    /\ UNCHANGED <<next_window_id, next_x, next_y, seek, handles, ints, cs,
                   local, crashed, ret>>
    /\ UNCHANGED histVars
    /\ UNCHANGED irqVars
    /\ UNCHANGED sessionVars
    /\ UNCHANGED shellVars

DropRemove ==
    /\ Resource_drop_remove
    /\ UNCHANGED clientVars

\* the drop returning without end_no_ints
DropEnd_held ==
    /\ MainRuns
    /\ pc = "drop_end"
    /\ handles' = [handles EXCEPT ![local.h] = NoHandle]
    /\ Reclaim(windows, handles')
    /\ ret' = [op |-> "drop", h |-> local.h, id |-> local.id]
    /\ pc' = "idle"
    /\ local' = [op |-> "none"]
    /\ UNCHANGED <<seek, crashed, ints, cs>>
    /\ UNCHANGED schemeVars
    /\ UNCHANGED histVars
    /\ UNCHANGED irqVars
    /\ UNCHANGED clientVars
    /\ UNCHANGED sessionVars
    /\ UNCHANGED shellVars

\* scheduler::end_no_ints(reenable), then the fields of the Resource drop
Resource_drop_end ==
    /\ MainRuns
    /\ pc = "drop_end"
    /\ ints' = end_no_ints(local.reenable)
    /\ cs' = cs - 1
    /\ handles' = [handles EXCEPT ![local.h] = NoHandle]
    /\ Reclaim(windows, handles')
    /\ ret' = [op |-> "drop", h |-> local.h, id |-> local.id]
    /\ pc' = "idle"
    /\ local' = [op |-> "none"]
    /\ UNCHANGED <<seek, crashed>>
    /\ UNCHANGED schemeVars
    /\ UNCHANGED histVars
    /\ UNCHANGED irqVars
    /\ UNCHANGED sessionVars
    /\ UNCHANGED shellVars

DropEnd ==
    /\ Resource_drop_end
    /\ UNCHANGED clientVars


(* ---------------------- Scheme::open, launch arm ---------------------- *)
\* packages is Session.packages: binary and accept patterns, in
\* registration order
starts_with(s, p) == Len(p) <= Len(s) /\ SubSeq(s, 1, Len(p)) = p
ends_with(s, p) == Len(p) <= Len(s) /\ SubSeq(s, Len(s) - Len(p) + 1, Len(s)) = p

\* the test of the `prefix*` form alone
Accepts_prefix(accept, path) ==
    /\ ends_with(accept, <<"*">>)
    /\ starts_with(path, SubSeq(accept, 1, Len(accept) - 1))

Accepts(accept, path) ==
    \/ /\ starts_with(accept, <<"*">>)
       /\ ends_with(path, SubSeq(accept, 2, Len(accept)))
    \/ /\ ends_with(accept, <<"*">>)
       /\ starts_with(path, SubSeq(accept, 1, Len(accept) - 1))

Accepted(package, path) ==
    \E i \in 1..Len(package.accepts) : Accepts(package.accepts[i], path)

\* index of the last package accepting path, 0 when none does
FirstAccepting_last(path) ==
    IF \E i \in 1..Len(packages) : Accepted(packages[i], path)
    THEN CHOOSE i \in 1..Len(packages) :
            /\ Accepted(packages[i], path)
            /\ \A j \in (i + 1)..Len(packages) : ~Accepted(packages[j], path)
    ELSE 0

\* index of the first package accepting path, 0 when none does
FirstAccepting(path) ==
    IF \E i \in 1..Len(packages) : Accepted(packages[i], path)
    THEN CHOOSE i \in 1..Len(packages) :
            /\ Accepted(packages[i], path)
            /\ \A j \in 1..(i - 1) : ~Accepted(packages[j], path)
    ELSE 0

LaunchBegin(path) ==
    /\ Ready
    /\ local' = [op |-> "launch", path |-> path,
                 entry |-> ints, reenable |-> start_no_ints_ret, cs0 |-> cs,
                 spawned |-> <<>>]
    /\ ints' = FALSE
    /\ cs' = cs + 1
    /\ pc' = "launch_scan"
    /\ UNCHANGED <<handles, crashed, ret>>
    /\ UNCHANGED schemeVars
    /\ UNCHANGED heapVars
    /\ UNCHANGED histVars
    /\ UNCHANGED irqVars
    /\ UNCHANGED clientVars
    /\ UNCHANGED sessionVars
    /\ UNCHANGED shellVars

\* the scan of the packages; spawn_scheme succeeds or fails
LaunchScan ==
    /\ MainRuns
    /\ pc = "launch_scan"
    /\ LET i == FirstAccepting(local.path)
       IN IF i = 0
          THEN local' = local
          ELSE \E ok \in BOOLEAN :
                  local' = [local EXCEPT !.spawned =
                              <<[binary |-> packages[i].binary,
                                 arg |-> local.path, ok |-> ok]>>]
    /\ pc' = "launch_end"
    /\ UNCHANGED <<handles, ints, cs, crashed, ret>>
    /\ UNCHANGED schemeVars
    /\ UNCHANGED heapVars
    /\ UNCHANGED histVars
    /\ UNCHANGED irqVars
    /\ UNCHANGED clientVars
    /\ UNCHANGED sessionVars
    /\ UNCHANGED shellVars

LaunchEnd ==
    /\ MainRuns
    /\ pc = "launch_end"
    /\ ints' = end_no_ints(local.reenable)
    /\ cs' = cs - 1
    /\ ret' = [op |-> "launch", some |-> FALSE, path |-> local.path,
               spawned |-> local.spawned]
    /\ pc' = "idle"
    /\ local' = [op |-> "none"]
    /\ UNCHANGED <<handles, crashed>>
    /\ UNCHANGED schemeVars
    /\ UNCHANGED heapVars
    /\ UNCHANGED histVars
    /\ UNCHANGED irqVars
    /\ UNCHANGED clientVars
    /\ UNCHANGED sessionVars
    /\ UNCHANGED shellVars

(* ------------------- Scheme::event, entered by _event ----------------- *)
\* Window::push_event: the oldest unread event makes room when full
PushEvent(q, ev) ==
    IF Len(q) >= EventCap THEN Append(Tail(q), ev) ELSE Append(q, ev)
Overflowed(q) == IF Len(q) >= EventCap THEN {Head(q)} ELSE {}

\* Session::event: the target is the topmost window, the last one created
\* among the live ones; with no live window the event goes nowhere
Target == IF order = <<>> THEN 0 ELSE order[Len(order)]

\* _event preempts the main context while interrupts are enabled; it runs
\* with interrupts masked by the gate (masked) or left as they were
EventBegin(masked, budget) ==
    /\ ~crashed
    /\ epc = "idle"
    /\ ints
    /\ nevents < budget
    /\ nevents' = nevents + 1
    /\ elocal' = [op |-> "event", ev |-> nevents + 1, saved |-> ints,
                  entry |-> ~masked, reenable |-> ~masked, cs0 |-> cs,
                  forwards |-> <<>>, draws |-> <<>>]
    /\ ints' = FALSE
    /\ cs' = cs + 1
    /\ epc' = "forward"
    /\ UNCHANGED <<handles, pc, local, crashed, ret, redraws>>
    /\ UNCHANGED schemeVars
    /\ UNCHANGED heapVars
    /\ UNCHANGED histVars
    /\ UNCHANGED clientVars
    /\ UNCHANGED sessionVars
    /\ UNCHANGED shellVars

\* self.session.event(event)
EventForward ==
    /\ ~crashed
    /\ epc = "forward"
    /\ LET t == Target
       IN /\ IF t = 0
             THEN UNCHANGED <<win, pushed, dropped>>
             ELSE /\ win' = [win EXCEPT ![t].events = PushEvent(@, elocal.ev)]
                  /\ pushed' = [pushed EXCEPT ![t] = Append(@, elocal.ev)]
                  /\ dropped' = [dropped EXCEPT ![t] = @ \cup Overflowed(win[t].events)]
          /\ elocal' = [elocal EXCEPT !.forwards =
                          Append(@, [to |-> t, cs |-> cs, ints |-> ints])]
    /\ epc' = "end"
    /\ UNCHANGED <<seek, order, handles, ints, cs, pc, local, crashed, ret,
                   created, delivered, nevents, redraws>>
    /\ UNCHANGED schemeVars
    /\ UNCHANGED clientVars
    /\ UNCHANGED sessionVars
    /\ UNCHANGED shellVars

\* the redraw moved before end_no_ints
EventEnd_late ==
    /\ ~crashed
    /\ epc = "end"
    /\ epc' = "redraw"
    /\ UNCHANGED <<handles, ints, cs, pc, local, elocal, crashed, ret, nevents,
                   redraws>>
    /\ UNCHANGED schemeVars
    /\ UNCHANGED heapVars
    /\ UNCHANGED histVars
    /\ UNCHANGED clientVars
    /\ UNCHANGED sessionVars
    /\ UNCHANGED shellVars

\* scheduler::end_no_ints(reenable)
EventEnd ==
    /\ ~crashed
    /\ epc = "end"
    /\ ints' = end_no_ints(elocal.reenable)
    /\ cs' = cs - 1
    /\ epc' = "redraw"
    /\ UNCHANGED <<handles, pc, local, elocal, crashed, ret, nevents, redraws>>
    /\ UNCHANGED schemeVars
    /\ UNCHANGED heapVars
    /\ UNCHANGED histVars
    /\ UNCHANGED clientVars
    /\ UNCHANGED sessionVars
    /\ UNCHANGED shellVars

\* self.session.redraw()
EventRedraw ==
    /\ ~crashed
    /\ epc = "redraw"
    /\ redraws' = redraws + 1
    /\ elocal' = [elocal EXCEPT !.draws = Append(@, [cs |-> cs, ints |-> ints])]
    /\ epc' = "return"
    /\ UNCHANGED <<handles, ints, cs, pc, local, crashed, ret, nevents>>
    /\ UNCHANGED schemeVars
    /\ UNCHANGED heapVars
    /\ UNCHANGED histVars
    /\ UNCHANGED clientVars
    /\ UNCHANGED sessionVars
    /\ UNCHANGED shellVars

\* Scheme::event has returned; _event returns to the preempted context,
\* which gets its interrupt flag back
EventReturn ==
    /\ ~crashed
    /\ epc = "return"
    /\ ints' = elocal.saved
    /\ epc' = "idle"
    /\ elocal' = [op |-> "none"]
    /\ UNCHANGED <<handles, cs, pc, local, crashed, ret, nevents, redraws>>
    /\ UNCHANGED schemeVars
    /\ UNCHANGED heapVars
    /\ UNCHANGED histVars
    /\ UNCHANGED clientVars
    /\ UNCHANGED sessionVars
    /\ UNCHANGED shellVars


(* ----------------- Resource::read/write/seek/sync --------------------- *)
ResRet(op, h, stale, res, n, data) ==
    [op |-> op, h |-> h, kind |-> handles[h].kind, id |-> handles[h].id,
     freed |-> ~Allocated(handles[h].id), stale |-> stale, res |-> res,
     n |-> n, data |-> data]

IsOpen(h, kind) == handles[h] # NoHandle /\ handles[h].kind = kind
Stale(h) == ~Allocated(handles[h].id)

\* the call changes nothing but what it returns
OnlyReturns ==
    /\ UNCHANGED <<handles, ints, cs, pc, local>>
    /\ UNCHANGED schemeVars
    /\ UNCHANGED heapVars
    /\ UNCHANGED histVars
    /\ UNCHANGED irqVars

\* *self.window_ptr of a Window that has been freed (stale): undefined
\* behaviour; the call returns something, or the scheme faults
UseAfterFree(op, h) ==
    /\ \E out \in {"ok", "err", "fault"} :
          /\ ret' = ResRet(op, h, TRUE, out, 0, <<>>)
          /\ crashed' = (out = "fault")
    /\ OnlyReturns

\* the trait's default methods, and ContentResource::read: Err(ENOENT)
DefaultOps ==
    [window |-> {"read", "write", "seek", "sync"},
     content |-> {"read"},
     title |-> {"seek", "sync"},
     events |-> {"write", "seek", "sync"},
     dimensions |-> {"seek", "sync"}]

\* the default method that rewinds the window's Content cursor before it
\* fails
Unsupported_rewinding(h, op) ==
    /\ Ready
    /\ handles[h] # NoHandle
    /\ op \in DefaultOps[handles[h].kind]
    /\ ret' = ResRet(op, h, FALSE, "err", 0, <<>>)
    /\ seek' = [id \in DOMAIN seek |-> IF id = handles[h].id THEN 0 ELSE seek[id]]
    /\ UNCHANGED <<win, order, handles, ints, cs, pc, local, crashed>>
    /\ UNCHANGED schemeVars
    /\ UNCHANGED histVars
    /\ UNCHANGED irqVars
    /\ UNCHANGED clientVars
    /\ UNCHANGED sessionVars
    /\ UNCHANGED shellVars

Unsupported(h, op) ==
    /\ Ready
    /\ handles[h] # NoHandle
    /\ op \in DefaultOps[handles[h].kind]
    /\ ret' = ResRet(op, h, FALSE, "err", 0, <<>>)
    /\ UNCHANGED crashed
    /\ OnlyReturns
    /\ UNCHANGED clientVars
    /\ UNCHANGED sessionVars
    /\ UNCHANGED shellVars

(* ContentResource *)
PixelAt(pixels, o) == IF o \in DOMAIN pixels THEN pixels[o] ELSE 0

\* Display::copy_run(src, dst, len): the first size bytes of buf copied to
\* offsets at .. at + size - 1 of the buffer
copy_run(pixels, at, buf, size) ==
    LET run == at..(at + size - 1)
        set == {o \in run : buf[o - at + 1] # 0}
    IN [o \in (DOMAIN pixels \ run) \cup set |->
           IF o \in run THEN buf[o - at + 1] ELSE pixels[o]]

\* the copy made to content.offscreen, without the cursor added
ContentWrite_unseeked(h, buf) ==
    /\ Ready
    /\ IsOpen(h, "content")
    /\ LET id == handles[h].id
           n == Len(buf)
       IN IF Stale(h) THEN UseAfterFree("write", h)
          ELSE IF seek[id] > win[id].size
          THEN \* content.size - self.seek underflows: a checked build
               \* panics, an unchecked one wraps and copies all n bytes
               \* to addresses past the end of the buffer
               \/ /\ crashed' = TRUE
                  /\ ret' = ResRet("write", h, FALSE, "panic", 0, <<>>)
                  /\ OnlyReturns
               \/ /\ seek[id] + n <= MaxSeek
                  /\ seek' = [seek EXCEPT ![id] = @ + n]
                  /\ ret' = ResRet("write", h, FALSE, "ok", n, <<>>)
                  /\ UNCHANGED <<win, order, handles, ints, cs, pc, local, crashed>>
                  /\ UNCHANGED schemeVars
                  /\ UNCHANGED histVars
                  /\ UNCHANGED irqVars
          ELSE LET size == Min(win[id].size - seek[id], n)
               IN /\ win' = [win EXCEPT
                                ![id].pixels = copy_run(@, 0, buf, size)]
                  /\ seek' = [seek EXCEPT ![id] = @ + size]
                  /\ ret' = ResRet("write", h, FALSE, "ok", size, <<>>)
                  /\ UNCHANGED <<order, handles, ints, cs, pc, local, crashed>>
                  /\ UNCHANGED schemeVars
                  /\ UNCHANGED histVars
                  /\ UNCHANGED irqVars
    /\ UNCHANGED clientVars
    /\ UNCHANGED sessionVars
    /\ UNCHANGED shellVars

ContentWrite(h, buf) ==
    /\ Ready
    /\ IsOpen(h, "content")
    /\ LET id == handles[h].id
           n == Len(buf)
       IN IF Stale(h) THEN UseAfterFree("write", h)
          ELSE IF seek[id] > win[id].size
          THEN \* content.size - self.seek underflows: a checked build
               \* panics, an unchecked one wraps and copies all n bytes
               \* to addresses past the end of the buffer
               \/ /\ crashed' = TRUE
                  /\ ret' = ResRet("write", h, FALSE, "panic", 0, <<>>)
                  /\ OnlyReturns
               \/ /\ seek[id] + n <= MaxSeek
                  /\ seek' = [seek EXCEPT ![id] = @ + n]
                  /\ ret' = ResRet("write", h, FALSE, "ok", n, <<>>)
                  /\ UNCHANGED <<win, order, handles, ints, cs, pc, local, crashed>>
                  /\ UNCHANGED schemeVars
                  /\ UNCHANGED histVars
                  /\ UNCHANGED irqVars
          ELSE LET size == Min(win[id].size - seek[id], n)
               IN /\ win' = [win EXCEPT
                                ![id].pixels = copy_run(@, seek[id], buf, size)]
                  /\ seek' = [seek EXCEPT ![id] = @ + size]
                  /\ ret' = ResRet("write", h, FALSE, "ok", size, <<>>)
                  /\ UNCHANGED <<order, handles, ints, cs, pc, local, crashed>>
                  /\ UNCHANGED schemeVars
                  /\ UNCHANGED histVars
                  /\ UNCHANGED irqVars
    /\ UNCHANGED clientVars
    /\ UNCHANGED sessionVars
    /\ UNCHANGED shellVars

\* the requested position taken as it is, bounded below only
SeekTo_unclamped(cur, end, whence, offset) ==
    CASE whence = "start" -> Max(0, offset)
      [] whence = "current" -> Max(0, cur + offset)
      [] whence = "end" -> Max(0, end + offset)

SeekTo(cur, end, whence, offset) ==
    CASE whence = "start" -> Min(end, Max(0, offset))
      [] whence = "current" -> Min(end, Max(0, cur + offset))
      [] whence = "end" -> Min(end, Max(0, end + offset))

ContentSeek(h, whence, offset) ==
    /\ Ready
    /\ IsOpen(h, "content")
    /\ whence = "start" => offset >= 0
    /\ LET id == handles[h].id
       IN IF Stale(h) THEN UseAfterFree("seek", h)
          ELSE LET to == SeekTo(seek[id], win[id].size, whence, offset)
               IN /\ seek' = [seek EXCEPT ![id] = to]
                  /\ ret' = ResRet("seek", h, FALSE, "ok", to, <<>>)
                  /\ UNCHANGED <<win, order, handles, ints, cs, pc, local, crashed>>
                  /\ UNCHANGED schemeVars
                  /\ UNCHANGED histVars
                  /\ UNCHANGED irqVars
    /\ UNCHANGED clientVars
    /\ UNCHANGED sessionVars
    /\ UNCHANGED shellVars

ContentSync(h) ==
    /\ Ready
    /\ IsOpen(h, "content")
    /\ IF Stale(h) THEN UseAfterFree("sync", h)
       ELSE /\ ret' = ResRet("sync", h, FALSE, "ok", 0, <<"redraw">>)
            /\ UNCHANGED crashed
            /\ OnlyReturns
    /\ UNCHANGED clientVars
    /\ UNCHANGED sessionVars
    /\ UNCHANGED shellVars

(* TitleResource *)
\* String::from_utf8_lossy(buf).replace("\u{FFFD}", "?"), as bytes.
\* Continuation(b): b is 10xxxxxx.  Second(b0): the second bytes a lead
\* byte b0 of a three or four byte sequence admits (no overlong form, no
\* surrogate, nothing above U+10FFFF).  SeqLen(b0): the length the lead
\* byte announces, 0 for a byte that starts no sequence.
Continuation(b) == b \in 128..191

Second(b0) ==
    CASE b0 = 224 -> 160..191
      [] b0 = 237 -> 128..159
      [] b0 = 240 -> 144..191
      [] b0 = 244 -> 128..143
      [] OTHER -> 128..191

SeqLen(b0) ==
    IF b0 < 128 THEN 1
    ELSE IF b0 \in 194..223 THEN 2
    ELSE IF b0 \in 224..239 THEN 3
    ELSE IF b0 \in 240..244 THEN 4
    ELSE 0

\* the bytes of s from the first that are a prefix of a well-formed
\* sequence: at least 1, at most SeqLen(s[1])
RECURSIVE ValidUpTo(_, _)
ValidUpTo(s, k) ==
    IF k >= SeqLen(s[1]) \/ k >= Len(s) THEN k
    ELSE IF (k = 1 /\ s[2] \in Second(s[1])) \/ (k > 1 /\ Continuation(s[k + 1]))
    THEN ValidUpTo(s, k + 1)
    ELSE k

\* the bytes taken for a string as they are (from_utf8_unchecked)
Lossy_unchecked(bytes) == bytes

\* from_utf8_lossy puts U+FFFD for each maximal ill-formed part; replace
\* then turns every U+FFFD (EF BF BD), also one the caller wrote, into "?"
RECURSIVE Lossy(_)
Lossy(bytes) ==
    IF bytes = <<>> THEN <<>>
    ELSE LET n == SeqLen(bytes[1])
             k == IF n = 0 THEN 1 ELSE ValidUpTo(bytes, 1)
             seq == SubSeq(bytes, 1, k)
         IN (IF n = 0 \/ k < n \/ seq = <<239, 191, 189>> THEN <<63>> ELSE seq)
            \o Lossy(SubSeq(bytes, k + 1, Len(bytes)))

\* the read that fills a short buffer with the start of the title
TitleRead_partial(h, len) ==
    /\ Ready
    /\ IsOpen(h, "title")
    /\ IF Stale(h) THEN UseAfterFree("read", h)
       ELSE LET title == win[handles[h].id].title
                n == Min(len, Len(title))
            IN /\ ret' = ResRet("read", h, FALSE, "ok", n, SubSeq(title, 1, n))
               /\ UNCHANGED crashed
               /\ OnlyReturns
    /\ UNCHANGED clientVars
    /\ UNCHANGED sessionVars
    /\ UNCHANGED shellVars

TitleRead(h, len) ==
    /\ Ready
    /\ IsOpen(h, "title")
    /\ IF Stale(h) THEN UseAfterFree("read", h)
       ELSE LET title == win[handles[h].id].title
            IN /\ IF len >= Len(title)
                  THEN ret' = ResRet("read", h, FALSE, "ok", Len(title), title)
                  ELSE ret' = ResRet("read", h, FALSE, "err", 0, <<>>)
               /\ UNCHANGED crashed
               /\ OnlyReturns
    /\ UNCHANGED clientVars
    /\ UNCHANGED sessionVars
    /\ UNCHANGED shellVars

TitleWrite(h, bytes) ==
    /\ Ready
    /\ IsOpen(h, "title")
    /\ IF Stale(h) THEN UseAfterFree("write", h)
       ELSE /\ win' = [win EXCEPT ![handles[h].id].title = Lossy(bytes),
                                ![handles[h].id].wrote = bytes]
            /\ ret' = ResRet("write", h, FALSE, "ok", Len(bytes), <<>>)
            /\ UNCHANGED <<seek, order, handles, ints, cs, pc, local, crashed>>
            /\ UNCHANGED schemeVars
            /\ UNCHANGED histVars
            /\ UNCHANGED irqVars
    /\ UNCHANGED clientVars
    /\ UNCHANGED sessionVars
    /\ UNCHANGED shellVars

(* EventResource *)
\* the records written from the end of the buffer backwards
RECURSIVE ReadLoop_reversed(_, _, _, _)
ReadLoop_reversed(q, i, len, out) ==
    IF len - i >= EventSize /\ q # <<>>
    THEN ReadLoop_reversed(Tail(q), i + EventSize, len, <<Head(q)>> \o out)
    ELSE [i |-> i, out |-> out, q |-> q]

\* the loop without its test of the room left in the buffer
RECURSIVE ReadLoop_draining(_, _, _, _)
ReadLoop_draining(q, i, len, out) ==
    IF q # <<>>
    THEN ReadLoop_draining(Tail(q), i + EventSize, len, Append(out, Head(q)))
    ELSE [i |-> i, out |-> out, q |-> q]

\* Window::poll pops the oldest pending event
RECURSIVE ReadLoop(_, _, _, _)
ReadLoop(q, i, len, out) ==
    IF len - i >= EventSize /\ q # <<>>
    THEN ReadLoop(Tail(q), i + EventSize, len, Append(out, Head(q)))
    ELSE [i |-> i, out |-> out, q |-> q]

EventResource_read(h, len) ==
    /\ Ready
    /\ IsOpen(h, "events")
    /\ LET id == handles[h].id
       IN IF len < EventSize
          THEN \* the loop body never runs
               /\ ret' = ResRet("read", h, FALSE, "ok", 0, <<>>)
               /\ UNCHANGED crashed
               /\ OnlyReturns
          ELSE IF Stale(h) THEN UseAfterFree("read", h)
          ELSE LET r == ReadLoop(win[id].events, 0, len, <<>>)
               IN /\ win' = [win EXCEPT ![id].events = r.q]
                  /\ delivered' = [delivered EXCEPT ![id] = @ \o r.out]
                  /\ ret' = ResRet("read", h, FALSE, "ok", r.i, r.out)
                  /\ UNCHANGED <<seek, order, handles, ints, cs, pc, local,
                                 crashed, created, pushed, dropped>>
                  /\ UNCHANGED schemeVars
                  /\ UNCHANGED irqVars

EventsRead(h, len) ==
    /\ EventResource_read(h, len)
    /\ UNCHANGED clientVars
    /\ UNCHANGED sessionVars
    /\ UNCHANGED shellVars

(* DimensionResource *)
\* Window::resize: a new zero-filled buffer of w * h * 4 bytes
Resize(window, w, h) ==
    [window EXCEPT !.w = w, !.h = h, !.size = w * h * 4, !.pixels = Blank]

DimensionsRead(h, len) ==
    /\ Ready
    /\ IsOpen(h, "dimensions")
    /\ LET id == handles[h].id
       IN IF len < DimSize
          THEN /\ ret' = ResRet("read", h, FALSE, "err", 0, <<>>)
               /\ UNCHANGED crashed
               /\ OnlyReturns
          ELSE IF Stale(h) THEN UseAfterFree("read", h)
          ELSE /\ win' = [win EXCEPT ![id] = Resize(@, win[id].w, win[id].h)]
               /\ ret' = ResRet("read", h, FALSE, "ok", DimSize,
                                <<win[id].w, win[id].h>>)
               /\ UNCHANGED <<seek, order, handles, ints, cs, pc, local, crashed>>
               /\ UNCHANGED schemeVars
               /\ UNCHANGED histVars
               /\ UNCHANGED irqVars
    /\ UNCHANGED clientVars
    /\ UNCHANGED sessionVars
    /\ UNCHANGED shellVars

\* the record read and acknowledged, the window not resized
DimensionsWrite_ignoring(h, len, d) ==
    /\ Ready
    /\ IsOpen(h, "dimensions")
    /\ ~Stale(h)
    /\ ret' = ResRet("write", h, FALSE, IF len < DimSize THEN "err" ELSE "ok",
                     IF len < DimSize THEN 0 ELSE DimSize, <<>>)
    /\ UNCHANGED crashed
    /\ OnlyReturns
    /\ UNCHANGED clientVars
    /\ UNCHANGED sessionVars
    /\ UNCHANGED shellVars

DimensionsWrite(h, len, d) ==
    /\ Ready
    /\ IsOpen(h, "dimensions")
    /\ LET id == handles[h].id
       IN IF len < DimSize
          THEN /\ ret' = ResRet("write", h, FALSE, "err", 0, <<>>)
               /\ UNCHANGED crashed
               /\ OnlyReturns
          ELSE IF Stale(h) THEN UseAfterFree("write", h)
          ELSE /\ win' = [win EXCEPT ![id] = Resize(@, d[1], d[2])]
               /\ ret' = ResRet("write", h, FALSE, "ok", DimSize, <<>>)
               /\ UNCHANGED <<seek, order, handles, ints, cs, pc, local, crashed>>
               /\ UNCHANGED schemeVars
               /\ UNCHANGED histVars
               /\ UNCHANGED irqVars
    /\ UNCHANGED clientVars
    /\ UNCHANGED sessionVars
    /\ UNCHANGED shellVars

(* ------------------ liborbital: Window::poll (client) ----------------- *)
\* the call has not returned and never will: the scheme died under it
PollDead == [pc |-> "dead"]

\* the result of a poll that has returned
PollReturned(p, some, event) ==
    [pc |-> "returned", h |-> p.h, id |-> p.id, waited |-> p.waited,
     seen |-> p.seen, some |-> some, event |-> event]

\* the match with its Ok(0) arm missing: an empty read returns
PollMatch_eager(p, r) ==
    CASE r.res = "ok" -> PollReturned(p, TRUE, IF r.n > 0 THEN r.data[1] ELSE 0)
      [] r.res = "err" -> PollReturned(p, FALSE, 0)
      [] OTHER -> PollDead

\* what the match on the result of self.events.read makes of the call;
\* seen (history): how many events had been pushed to the window when the
\* call last found nothing pending
PollMatch(p, r) ==
    CASE r.res = "ok" /\ r.n = 0 ->
            [p EXCEPT !.pc = "yield", !.seen = Len(pushed[p.id])]
      [] r.res = "ok" /\ r.n > 0 -> PollReturned(p, TRUE, r.data[1])
      [] r.res = "err" -> PollReturned(p, FALSE, 0)
      [] OTHER -> PollDead

\* the client enters poll on its Events file h
PollBegin(h) ==
    /\ Ready
    /\ poll.pc \in {"idle", "returned"}
    /\ IsOpen(h, "events")
    /\ poll' = [pc |-> "read", h |-> h, id |-> handles[h].id, waited |-> FALSE,
                seen |-> 0]
    /\ UNCHANGED <<handles, ints, cs, pc, local, crashed, ret, ctor>>
    /\ UNCHANGED sessionVars
    /\ UNCHANGED shellVars
    /\ UNCHANGED schemeVars
    /\ UNCHANGED heapVars
    /\ UNCHANGED histVars
    /\ UNCHANGED irqVars

\* self.events.read(one Event) and the match on its result
PollRead ==
    /\ poll.pc = "read"
    /\ EventResource_read(poll.h, EventSize)
    /\ poll' = PollMatch(poll, ret')
    /\ UNCHANGED ctor
    /\ UNCHANGED sessionVars
    /\ UNCHANGED shellVars

\* sys_yield(): the processor goes to the other contexts; the loop goes
\* round when the process is scheduled again
PollYield ==
    /\ ~crashed
    /\ poll.pc = "yield"
    /\ poll' = [poll EXCEPT !.pc = "read", !.waited = TRUE]
    /\ UNCHANGED <<handles, ints, cs, pc, local, crashed, ret, ctor>>
    /\ UNCHANGED sessionVars
    /\ UNCHANGED shellVars
    /\ UNCHANGED schemeVars
    /\ UNCHANGED heapVars
    /\ UNCHANGED histVars
    /\ UNCHANGED irqVars

(* ------------------- client library: Window::new ---------------------- *)
\* format!("{}", n) of a signed number
Signed(n) == IF n < 0 THEN <<"-">> \o Digits(0 - n) ELSE Digits(n)

\* the path of orbital:///{x}/{y}/{w}/{h}/{title}, the title empty
CreateAddress(x, y, w, h) == <<Signed(x), Signed(y), Digits(w), Digits(h)>>

\* the four files in the order Window::new opens them
ViewOrder == <<"title", "content", "events", "dimensions">>

CtorReturned(some, c) ==
    [pc |-> "returned", some |-> some, id |-> c.id, file |-> c.file,
     opened |-> c.opened]

\* the handles the call holds, in the order their drops run: the four
\* files, the last declared first, then the file of the window
CtorHeld(c) ==
    LET files == SelectSeq(c.opened, LAMBDA o : o.ok)
    IN [i \in 1..Len(files) |-> files[Len(files) + 1 - i].h] \o <<c.file>>

\* File::open of the create address; failed stands for an Err that
\* File::open returns without a handle from the scheme
WindowNewCreate(x, y, w, h, failed) ==
    /\ ctor.pc \in {"idle", "returned"}
    /\ ctor.pc = "returned" => ~ctor.some
    /\ poll' = poll
    /\ IF failed
       THEN /\ Ready
            /\ ctor' = [pc |-> "returned", some |-> FALSE, id |-> 0, file |-> 0,
                        opened |-> <<>>]
            /\ UNCHANGED <<handles, ints, cs, pc, local, crashed, ret>>
            /\ UNCHANGED schemeVars
            /\ UNCHANGED heapVars
            /\ UNCHANGED histVars
            /\ UNCHANGED irqVars
            /\ UNCHANGED sessionVars
            /\ UNCHANGED shellVars
       ELSE /\ LET a == CreateArgs(CreateAddress(x, y, w, h))
               IN Scheme_open_create(a.x, a.y, a.w, a.h)
            /\ ctor' = IF pc' = "insert"
                       THEN [pc |-> "create"]
                       ELSE [pc |-> "returned", some |-> FALSE, id |-> 0,
                             file |-> 0, opened |-> <<>>]

\* Ok(file): the create returns its Resource
WindowNewCreated ==
    /\ ctor.pc = "create"
    /\ Scheme_open_insert
    /\ ctor' = [pc |-> "open", id |-> ret'.id, file |-> ret'.h, opened |-> <<>>]
    /\ poll' = poll

\* File::open(&format!("{}{view}", window_path)) of the next view
WindowNewOpen(failed) ==
    /\ ctor.pc = "open"
    /\ Len(ctor.opened) < Len(ViewOrder)
    /\ poll' = poll
    /\ LET view == ViewOrder[Len(ctor.opened) + 1]
           address == Resource_path(ctor.file) \o Spelling[view]
       IN IF failed
          THEN /\ Ready
               /\ ctor' = [ctor EXCEPT !.opened =
                             Append(@, [view |-> view, ok |-> FALSE, h |-> 0])]
               /\ UNCHANGED <<handles, ints, cs, pc, local, crashed, ret>>
               /\ UNCHANGED schemeVars
               /\ UNCHANGED heapVars
               /\ UNCHANGED histVars
               /\ UNCHANGED irqVars
               /\ UNCHANGED sessionVars
               /\ UNCHANGED shellVars
          ELSE /\ IsWindowAddress(address)
               /\ Scheme_open_window(AddressId(address), AddressProperty(address))
               /\ ctor' = [ctor EXCEPT !.opened =
                             Append(@, [view |-> view, ok |-> ret'.some,
                                        h |-> ret'.h])]

\* the test of the four results, with the file of the window left out of
\* what is dropped when it fails
WindowNewMatch_leaking ==
    /\ ctor.pc = "open"
    /\ Len(ctor.opened) = Len(ViewOrder)
    /\ Ready
    /\ ctor' = IF \A i \in 1..Len(ctor.opened) : ctor.opened[i].ok
               THEN [pc |-> "returned", some |-> TRUE, id |-> ctor.id,
                     file |-> ctor.file, opened |-> ctor.opened]
               ELSE [pc |-> "close", id |-> ctor.id, file |-> ctor.file,
                     opened |-> ctor.opened,
                     queue |-> LET files == SelectSeq(ctor.opened, LAMBDA o : o.ok)
                               IN [i \in 1..Len(files) |-> files[i].h]]
    /\ UNCHANGED <<handles, ints, cs, pc, local, crashed, ret, poll>>
    /\ UNCHANGED schemeVars
    /\ UNCHANGED heapVars
    /\ UNCHANGED histVars
    /\ UNCHANGED irqVars
    /\ UNCHANGED sessionVars
    /\ UNCHANGED shellVars

\* if title_file.is_ok() && content_file.is_ok() && events_file.is_ok() &&
\* dimensions_file.is_ok(): Some(Window) holding the five files; else the
\* arm ends and what it opened is dropped
WindowNewMatch ==
    /\ ctor.pc = "open"
    /\ Len(ctor.opened) = Len(ViewOrder)
    /\ Ready
    /\ ctor' = IF \A i \in 1..Len(ctor.opened) : ctor.opened[i].ok
               THEN CtorReturned(TRUE, ctor)
               ELSE [pc |-> "close", id |-> ctor.id, file |-> ctor.file,
                     opened |-> ctor.opened, queue |-> CtorHeld(ctor)]
    /\ UNCHANGED <<handles, ints, cs, pc, local, crashed, ret, poll>>
    /\ UNCHANGED schemeVars
    /\ UNCHANGED heapVars
    /\ UNCHANGED histVars
    /\ UNCHANGED irqVars
    /\ UNCHANGED sessionVars
    /\ UNCHANGED shellVars

\* the drop of the next file the arm held
WindowNewDrop ==
    /\ ctor.pc = "close"
    /\ ctor.queue # <<>>
    /\ Resource_drop(Head(ctor.queue))
    /\ ctor' = [ctor EXCEPT !.queue = Tail(@)]
    /\ poll' = poll

\* None, once every file is dropped
WindowNewNone ==
    /\ ctor.pc = "close"
    /\ ctor.queue = <<>>
    /\ Ready
    /\ ctor' = CtorReturned(FALSE, ctor)
    /\ UNCHANGED <<handles, ints, cs, pc, local, crashed, ret, poll>>
    /\ UNCHANGED schemeVars
    /\ UNCHANGED heapVars
    /\ UNCHANGED histVars
    /\ UNCHANGED irqVars
    /\ UNCHANGED sessionVars
    /\ UNCHANGED shellVars

(* ------------------------ shell: on_command --------------------------- *)
\* A line is the words command_string.split(' ') yields, the empty ones
\* left out; a word is its characters.  shell.modes is the Vec<Mode>, the
\* innermost first; shell.variables is the Vec<Variable>; shell.effect is
\* what the last line did.
If == <<"i", "f">>
Else == <<"e", "l", "s", "e">>
Fi == <<"f", "i">>

Exit == <<"e", "x", "i", "t">>
Echo == <<"e", "c", "h", "o">>

\* the names of Command::vec() the lines use
ShellCommands == {Echo, Exit}

\* the value of the variable name, if it is set
Lookup(variables, name) ==
    SelectSeq(variables, LAMBDA v : v.name = name)

\* "Explode into arguments, replace variables"
RECURSIVE Explode(_, _)
Explode(line, variables) ==
    IF line = <<>> THEN <<>>
    ELSE LET arg == Head(line)
             rest == Explode(Tail(line), variables)
         IN IF arg[1] = "$"
            THEN (IF Lookup(variables, Tail(arg)) = <<>> THEN <<>>
                  ELSE <<Lookup(variables, Tail(arg))[1].value>>) \o rest
            ELSE <<arg>> \o rest

\* the value `if` pushes
Compare(args) ==
    IF Len(args) < 4 THEN FALSE
    ELSE LET left == args[2]
             cmp == args[3]
             right == args[4]
         IN CASE cmp = <<"=", "=">> -> left = right
              [] cmp = <<"!", "=">> -> left # right
              [] cmp = <<">">> -> to_num_signed(left) > to_num_signed(right)
              [] cmp = <<">", "=">> -> to_num_signed(left) >= to_num_signed(right)
              [] cmp = <<"<">> -> to_num_signed(left) < to_num_signed(right)
              [] cmp = <<"<", "=">> -> to_num_signed(left) <= to_num_signed(right)
              [] OTHER -> FALSE

\* for mode in modes.iter() { if !mode.value { return; } }
Active(modes) == \A i \in 1..Len(modes) : modes[i]

\* cmd.find('='): the index of the first "=", 0 when there is none
Find(cmd) ==
    IF \E i \in 1..Len(cmd) : cmd[i] = "="
    THEN CHOOSE i \in 1..Len(cmd) :
            cmd[i] = "=" /\ \A j \in 1..(i - 1) : cmd[j] # "="
    ELSE 0

\* value + " " + arg over the arguments after the first
RECURSIVE Joined(_, _)
Joined(value, args) ==
    IF args = <<>> THEN value
    ELSE Joined(value \o <<" ">> \o Head(args), Tail(args))

set_var(variables, name, value) ==
    IF name = <<>> THEN variables
    ELSE IF value = <<>>
    THEN SelectSeq(variables, LAMBDA v : v.name # name)
    ELSE IF Lookup(variables, name) # <<>>
    THEN [i \in 1..Len(variables) |->
             IF variables[i].name = name
             THEN [name |-> name, value |-> value] ELSE variables[i]]
    ELSE Append(variables, [name |-> name, value |-> value])

\* on_command: the shell after the line, by the branch the line takes
Done(line, modes, variables, effect) ==
    [at |-> "running", modes |-> modes, variables |-> variables,
     line |-> line, effect |-> effect]

on_command(sh, line) ==
    LET args == Explode(line, sh.variables)
        cmd == args[1]
        eq == Find(cmd)
    IN IF line # <<>> /\ line[1][1] = "#"
       THEN Done(line, sh.modes, sh.variables, "none")
       ELSE IF line = << <<"$">> >>
       THEN Done(line, sh.modes, sh.variables, "show")
       ELSE IF args = <<>>
       THEN Done(line, sh.modes, sh.variables, "none")
       ELSE IF cmd = If
       THEN Done(line, <<Compare(args)>> \o sh.modes, sh.variables, "push")
       ELSE IF cmd = Else
       THEN (IF sh.modes # <<>>
             THEN Done(line, <<~sh.modes[1]>> \o Tail(sh.modes), sh.variables,
                       "negate")
             ELSE Done(line, sh.modes, sh.variables, "syntax error"))
       ELSE IF cmd = Fi
       THEN (IF sh.modes # <<>>
             THEN Done(line, Tail(sh.modes), sh.variables, "pop")
             ELSE Done(line, sh.modes, sh.variables, "syntax error"))
       ELSE IF ~Active(sh.modes)
       THEN Done(line, sh.modes, sh.variables, "none")
       ELSE IF eq > 0
       THEN Done(line, sh.modes,
                 set_var(sh.variables, SubSeq(cmd, 1, eq - 1),
                         Joined(SubSeq(cmd, eq + 1, Len(cmd)), Tail(args))),
                 "set")
       ELSE IF cmd \in ShellCommands
       THEN Done(line, sh.modes, sh.variables, "run")
       ELSE Done(line, sh.modes, sh.variables, "unknown")

\* what no line of the shell changes
orbitalUnchanged ==
    /\ UNCHANGED <<handles, ints, cs, pc, local, crashed, ret>>
    /\ UNCHANGED schemeVars
    /\ UNCHANGED heapVars
    /\ UNCHANGED histVars
    /\ UNCHANGED irqVars
    /\ UNCHANGED clientVars
    /\ UNCHANGED sessionVars

\* main with a file argument: every line of the file goes to on_command
MainScript(line) ==
    /\ shell.at \in {"start", "script"}
    /\ Len(on_command(shell, line).modes) <= MaxModes
    /\ shell' = [on_command(shell, line) EXCEPT !.at = "script"]
    /\ orbitalUnchanged

\* main without one: the loop over the lines read; "exit" breaks it,
\* an empty line is skipped, any other line goes to on_command
MainLoop(line) ==
    /\ shell.at \in {"start", "terminal"}
    /\ Len(on_command(shell, line).modes) <= MaxModes
    /\ shell' = IF line = <<Exit>>
                THEN [shell EXCEPT !.at = "exited", !.line = line,
                                   !.effect = "exit"]
                ELSE IF line = <<>>
                THEN [shell EXCEPT !.at = "terminal", !.line = line,
                                   !.effect = "none"]
                ELSE [on_command(shell, line) EXCEPT !.at = "terminal"]
    /\ orbitalUnchanged

(* --------------------------- specification ---------------------------- *)
\* ids a caller may name: every id handed out so far and the next one
OpenIds == Ids \cup {next_window_id}

\* Every specification takes the steps of the calls it is about, with their
\* inputs drawn from the sets of a record I:
\*   xs ys ws hs  numeric fields of a create address after to_num(_signed)
\*   addresses    create addresses, as their path segments
\*   masks        whether an input arrives with interrupts already disabled
\*   properties   property segments of an <id>/<property> address
\*   lens         caller buffer lengths of reads and writes
\*   pixels       byte strings written to a Content view
\*   dims         (width, height) records written to a Dimensions view
\*   titles       byte strings written to a Title view
\*   seeks        (origin, offset) of a Content seek
\*   paths        launch paths
\*   events       input events delivered during the run

\* the lifecycle of windows and handles: every call of the synchronous
\* caller, with no input delivered
Step(I) ==
    \/ \E x \in I.xs, y \in I.ys, w \in I.ws, h \in I.hs : OpenCreate(x, y, w, h)
    \/ OpenCreateInsert
    \/ \E id \in OpenIds, property \in I.properties : OpenWindow(id, property)
    \/ OpenOther
    \/ \E h \in Slots : DropBegin(h)
    \/ DropRemove
    \/ DropEnd
    \/ \E path \in I.paths : LaunchBegin(path)
    \/ LaunchScan
    \/ LaunchEnd
    \/ \E h \in Slots, op \in Ops : Unsupported(h, op)
    \/ \E h \in Slots, buf \in I.pixels : ContentWrite(h, buf)
    \/ \E h \in Slots, s \in I.seeks : ContentSeek(h, s[1], s[2])
    \/ \E h \in Slots : ContentSync(h)
    \/ \E h \in Slots, len \in I.lens : TitleRead(h, len)
    \/ \E h \in Slots, bytes \in I.titles : TitleWrite(h, bytes)
    \/ \E h \in Slots, len \in I.lens : EventsRead(h, len)
    \/ \E h \in Slots, len \in I.lens : DimensionsRead(h, len)
    \/ \E h \in Slots, len \in I.lens, d \in I.dims : DimensionsWrite(h, len, d)

LifeInputs ==
    [xs |-> {40}, ys |-> {40}, ws |-> {1}, hs |-> {1}, properties |-> Properties,
     lens |-> {0, 16}, pixels |-> {<<>>, [i \in 1..16 |-> 0]},
     dims |-> {<<1, 1>>}, titles |-> {<<>>},
     seeks |-> {<<"start", 0>>}, paths |-> {<<"/", "d", ".", "t">>, <<"/", "e">>}]

Next == Step(LifeInputs)
Spec == Init /\ [][Next]_vars

\* the critical sections: the calls that enter one or mutate the Window
\* Table, preempted by _event wherever interrupts are enabled
IrqStep(I) ==
    \/ \E x \in I.xs, y \in I.ys, w \in I.ws, h \in I.hs : OpenCreate(x, y, w, h)
    \/ OpenCreateInsert
    \/ \E id \in OpenIds, property \in I.properties : OpenWindow(id, property)
    \/ \E h \in Slots : DropBegin(h)
    \/ DropRemove
    \/ DropEnd
    \/ \E path \in I.paths : LaunchBegin(path)
    \/ LaunchScan
    \/ LaunchEnd
    \/ \E masked \in BOOLEAN : EventBegin(masked, I.events)
    \/ EventForward
    \/ EventEnd
    \/ EventRedraw
    \/ EventReturn

IrqInputs ==
    [xs |-> {40}, ys |-> {40}, ws |-> {1}, hs |-> {1},
     properties |-> {NoProp, "title", "bogus"},
     paths |-> {<<"/", "d", ".", "t">>, <<"/", "e">>}, events |-> MaxEvents]

NextIrq == IrqStep(IrqInputs)
SpecIrq == Init /\ [][NextIrq]_vars

\* the pending-event store of a window: the calls that reach it, which are
\* create, open, drop, _event and the Events read
FifoStep(I) ==
    \/ \E x \in I.xs, y \in I.ys, w \in I.ws, h \in I.hs : OpenCreate(x, y, w, h)
    \/ OpenCreateInsert
    \/ \E id \in OpenIds, property \in I.properties : OpenWindow(id, property)
    \/ \E h \in Slots : DropBegin(h)
    \/ DropRemove
    \/ DropEnd
    \/ \E masked \in BOOLEAN : EventBegin(masked, I.events)
    \/ EventForward
    \/ EventEnd
    \/ EventRedraw
    \/ EventReturn
    \/ \E h \in Slots, len \in I.lens : EventsRead(h, len)

FifoInputs ==
    [xs |-> {40}, ys |-> {40}, ws |-> {1}, hs |-> {1},
     properties |-> {NoProp, "events"}, lens |-> {3, 16, 40},
     events |-> MaxFifoEvents]

NextFifo == FifoStep(FifoInputs)
SpecFifo == Init /\ [][NextFifo]_vars

\* a client blocked in poll: it creates a window, opens its Events view and
\* polls, while input arrives; it closes a handle only between two polls
\* (poll borrows the client's Window for the whole call)
PollStep(I) ==
    \/ \E x \in I.xs, y \in I.ys, w \in I.ws, h \in I.hs : OpenCreate(x, y, w, h)
    \/ OpenCreateInsert
    \/ \E id \in OpenIds, property \in I.properties : OpenWindow(id, property)
    \/ \E h \in Slots : poll.pc \in {"idle", "returned"} /\ DropBegin(h)
    \/ DropRemove
    \/ DropEnd
    \/ \E masked \in I.masks : EventBegin(masked, I.events)
    \/ EventForward
    \/ EventEnd
    \/ EventRedraw
    \/ EventReturn
    \/ \E h \in Slots : PollBegin(h)
    \/ PollRead
    \/ PollYield

\* as many events as overflow one window's store
PollInputs ==
    [xs |-> {40}, ys |-> {40}, ws |-> {1}, hs |-> {1},
     properties |-> {"events"}, masks |-> {FALSE}, events |-> EventCap + 1]

NextPoll == PollStep(PollInputs)

\* every call in progress runs to its end, an input dispatch runs to its
\* end, and the polling process is scheduled again after each yield
PollFairness ==
    /\ WF_vars(OpenCreateInsert)
    /\ WF_vars(DropRemove)
    /\ WF_vars(DropEnd)
    /\ WF_vars(EventForward)
    /\ WF_vars(EventEnd)
    /\ WF_vars(EventRedraw)
    /\ WF_vars(EventReturn)
    /\ WF_vars(PollRead)
    /\ WF_vars(PollYield)

SpecPoll == Init /\ [][NextPoll]_vars /\ PollFairness

\* the placement of new windows: creates by address, and the drops that
\* free the caller's handle slots
PlaceStep(I) ==
    \/ \E path \in I.addresses : OpenCreateUrl(path)
    \/ OpenCreateInsert
    \/ \E h \in Slots : DropBegin(h)
    \/ DropRemove
    \/ DropEnd

Seg0 == <<"0">>
Seg32 == <<"3", "2">>
Seg64 == <<"6", "4">>
Seg96 == <<"9", "6">>
SegBad == <<"w">>
ExampleAddress == <<Seg0, Seg0, <<"2", "0", "0">>, <<"1", "5", "0">>, <<"T">>>>

PlaceInputs ==
    [addresses |->
        {ExampleAddress,
         <<>>, <<SegBad>>, <<Seg0, SegBad>>, <<Seg0>>,
         <<Seg0, Seg0>>, <<Seg0, Seg0, SegBad>>,
         <<Seg0, Seg0, Seg32>>, <<Seg0, Seg0, Seg32, SegBad>>,
         <<Seg0, Seg0, Seg32, Seg32>>, <<Seg0, Seg0, Seg64, Seg32>>,
         <<Seg0, Seg0, Seg96, Seg32>>, <<Seg0, Seg0, Seg32, Seg64>>,
         <<<<"-", "8">>, Seg64, Seg64, Seg64>>,
         <<<<"8">>, <<"1", "6">>, Seg32, Seg32>>}]

NextPlace == PlaceStep(PlaceInputs)
SpecPlace == Init /\ [][NextPlace]_vars

\* the content buffer of a window: a caller that creates one window, holds
\* it, its Content view and its Dimensions view at once (one slot more than
\* the other callers have), and writes, seeks and resizes
ContentStep(I) ==
    \/ \E x \in I.xs, y \in I.ys, w \in I.ws, h \in I.hs :
          created = <<>> /\ OpenCreate(x, y, w, h)
    \/ OpenCreateInsert
    \/ \E id \in OpenIds, property \in I.properties : OpenWindow(id, property)
    \/ \E h \in Slots, buf \in I.pixels : ContentWrite(h, buf)
    \/ \E h \in Slots, s \in I.seeks : ContentSeek(h, s[1], s[2])
    \/ \E h \in Slots : ContentSync(h)
    \/ \E h \in Slots, len \in I.lens : DimensionsRead(h, len)
    \/ \E h \in Slots, len \in I.lens, d \in I.dims : DimensionsWrite(h, len, d)

ContentInputs ==
    [xs |-> {40}, ys |-> {40}, ws |-> {1}, hs |-> {1},
     properties |-> {"content", "dimensions"},
     pixels |-> {<<5>>, <<6, 7>>},
     seeks |-> {<<"start", 0>>, <<"start", 2>>, <<"start", 9>>,
                <<"current", 3>>, <<"current", -1>>, <<"current", -9>>,
                <<"end", -2>>, <<"end", 1>>},
     lens |-> {8, 16}, dims |-> {<<1, 1>>, <<0, 1>>}]

NextContent == ContentStep(ContentInputs)
SpecContent == InitSlots(MaxHandles + 1) /\ [][NextContent]_vars

\* the views of a window: a caller that creates one window and holds it
\* with two of its views at once, writes and reads the title, draws, and
\* makes the calls a view does not implement
ViewStep(I) ==
    \/ \E x \in I.xs, y \in I.ys, w \in I.ws, h \in I.hs :
          created = <<>> /\ OpenCreate(x, y, w, h)
    \/ OpenCreateInsert
    \/ \E id \in OpenIds, property \in I.properties : OpenWindow(id, property)
    \/ \E h \in Slots, op \in Ops : Unsupported(h, op)
    \/ \E h \in Slots, buf \in I.pixels : ContentWrite(h, buf)
    \/ \E h \in Slots : ContentSync(h)
    \/ \E h \in Slots, len \in I.lens : TitleRead(h, len)
    \/ \E h \in Slots, bytes \in I.titles : TitleWrite(h, bytes)

\* the titles: "", "Hi", U+00E9, a lead byte alone, a three byte sequence
\* cut short after two bytes, and U+FFFD
ViewInputs ==
    [xs |-> {40}, ys |-> {40}, ws |-> {1}, hs |-> {1},
     properties |-> {"content", "title", "events", "dimensions"},
     pixels |-> {<<5>>}, lens |-> {1, 3},
     titles |-> {<<>>, <<72, 105>>, <<195, 169>>, <<200>>, <<226, 130>>,
                 <<239, 191, 189>>}]

\* launch: sessions with different packages, in which a caller creates
\* a window and asks once for the launch of a path
LaunchStep(I) ==
    \/ \E x \in I.xs, y \in I.ys, w \in I.ws, h \in I.hs :
          created = <<>> /\ OpenCreate(x, y, w, h)
    \/ OpenCreateInsert
    \/ \E path \in I.paths : ret.op # "launch" /\ LaunchBegin(path)
    \/ LaunchScan
    \/ LaunchEnd

\* the strings of at most n characters of alphabet
Strings(alphabet, n) == UNION {[1..k -> alphabet] : k \in 0..n}

\* a session with the one package app, accepting the one pattern accept
OnePattern(accept) == <<[binary |-> "app", accepts |-> <<accept>>]>>

\* `*.txt` and `/bin/*`, each the pattern of a package of its own
ExamplePackages ==
    << [binary |-> "text", accepts |-> << <<"*", ".", "t", "x", "t">> >>],
       [binary |-> "bin", accepts |-> << <<"/", "b", "i", "n", "/", "*">> >>] >>

Readme ==
    <<"/", "d", "o", "c", "s", "/", "r", "e", "a", "d", "m", "e", ".", "t", "x", "t">>
BinLs == <<"/", "b", "i", "n", "/", "l", "s">>
Passwd == <<"/", "e", "t", "c", "/", "p", "a", "s", "s", "w", "d">>

Sessions ==
    {Packages, ExamplePackages}
        \cup {OnePattern(accept) : accept \in Strings({"a", "b", "*"}, MaxPattern)}

LaunchInputs ==
    [xs |-> {40}, ys |-> {40}, ws |-> {1}, hs |-> {1},
     paths |-> Strings({"a", "b", "*"}, MaxPath)
                  \cup {Readme, BinLs, Passwd, <<"/", "d", ".", "t">>,
                        <<"/", "b", "/", "l">>, <<"/", "e">>}]

NextLaunch == LaunchStep(LaunchInputs)
SpecLaunch ==
    /\ \E session \in Sessions : InitWith(MaxHandles, session)
    /\ [][NextLaunch]_vars

\* addresses: a caller that creates windows, opens what path() of its
\* handles names, and closes handles
PathStep(I) ==
    \/ \E x \in I.xs, y \in I.ys, w \in I.ws, h \in I.hs :
          Len(created) < MaxHandles /\ OpenCreate(x, y, w, h)
    \/ OpenCreateInsert
    \/ \E h \in Slots, more \in I.more : PathOpen(h, more)
    \/ \E h \in Slots : DropBegin(h)
    \/ DropRemove
    \/ DropEnd

PathInputs ==
    [xs |-> {40}, ys |-> {40}, ws |-> {1}, hs |-> {1},
     more |-> {<<>>} \cup {Spelling[k] : k \in DOMAIN Spelling}]

NextPath == PathStep(PathInputs)
SpecPath == InitSlots(MaxHandles + 1) /\ [][NextPath]_vars

\* the client library: a process that makes windows with Window::new,
\* any of its File::open calls failing
CtorStep(I) ==
    \/ \E x \in I.xs, y \in I.ys, w \in I.ws, h \in I.hs, failed \in BOOLEAN :
          WindowNewCreate(x, y, w, h, failed)
    \/ WindowNewCreated
    \/ \E failed \in BOOLEAN : WindowNewOpen(failed)
    \/ WindowNewMatch
    \/ WindowNewDrop
    \/ DropRemove
    \/ DropEnd
    \/ WindowNewNone

CtorInputs == [xs |-> {-8, 40}, ys |-> {40}, ws |-> {1}, hs |-> {1}]

NextCtor == CtorStep(CtorInputs)
SpecCtor == InitSlots(MaxHandles + 3) /\ [][NextCtor]_vars

\* the shell: a script of if/else/fi, assignments and commands
ShellStep(I) ==
    \/ \E line \in I.lines : MainScript(line)
    \/ \E line \in I.lines : MainLoop(line)

A1 == <<"a", "=", "1">>
A2 == <<"a", "=", "2">>
Unset == <<"a", "=">>
DollarA == <<"$", "a">>

ShellInputs ==
    [lines |-> {<<If, DollarA, <<"=", "=">>, <<"1">> >>,
                <<If, DollarA, <<"<">>, <<"2">> >>,
                <<If, <<"1">>, <<"!", "=">> >>,
                <<Else>>, <<Fi>>,
                <<A1>>, <<A2>>, <<Unset>>, <<A1, <<"b">> >>,
                <<Echo, DollarA>>, <<Exit>>, <<DollarA>>, << <<"l", "s", "s">> >>,
                << <<"$">> >>, << <<"#">>, Echo >>, <<>>}]

NextShell == ShellStep(ShellInputs)
SpecShell == Init /\ [][NextShell]_vars

NextView == ViewStep(ViewInputs)
SpecView == InitSlots(MaxHandles + 1) /\ [][NextView]_vars

(* ------------------------------ claims -------------------------------- *)
HandlesOf(id) == {h \in Slots : handles[h] # NoHandle /\ handles[h].id = id}
Returned == {created[i] : i \in 1..Len(created)}
SubKinds == {"content", "title", "events", "dimensions"}

\* C1: window lifetime is reference-counted over its handles.  Between
\* calls, a window a create returned is in the Window Table exactly as long
\* as at least one of its handles is open.
C1_TableEntryWhileHandleOpen ==
    pc = "idle" =>
        \A id \in Returned : (id \in windows) <=> (HandlesOf(id) # {})

\* C2: no read, write, seek or sync on a Content, Title, Events or Dimensions
\* handle accesses a window that has been destroyed: on a handle whose
\* window is freed the call fails with an error and dereferences nothing.
C2_NoAccessAfterDestroy ==
    (ret.op \in Ops /\ ret.kind \in SubKinds /\ ret.freed) =>
        (ret.res = "err" /\ ~ret.stale)

\* C3: opening <id> or <id>/<property> for an id that is not in the Window
\* Table returns not-found: no handle, no crash, the table as it was.
C3_OpenAbsentIdNotFound ==
    (ret.op = "open" /\ ~ret.present) =>
        (~ret.some /\ ~ret.panic /\ ~crashed)

\* C4: opening <id>/<property> for a window in the table with a property
\* other than content, title, events or dimensions returns not-found and
\* leaves the table, the id counter and the window unchanged; with no
\* property it returns the whole-window handle.
C4_UnknownPropertyNotFound ==
    [][\A id \in OpenIds, property \in Properties :
          (id \in windows /\ OpenWindow(id, property)) =>
              CASE property = NoProp ->
                     /\ ret'.some
                     /\ handles'[ret'.h] = [kind |-> "window", id |-> id]
                [] property \in SubKinds ->
                     /\ ret'.some
                     /\ handles'[ret'.h] = [kind |-> property, id |-> id]
                [] OTHER ->
                     /\ ~ret'.some
                     /\ ~crashed'
                     /\ UNCHANGED <<windows, next_window_id, next_x, next_y,
                                    win, seek, order, handles>>]_vars

C4_Witness ==
    /\ ret.op = "open"
    /\ ret.present
    /\ ret.property = "bogus"
    /\ ~ret.some
    /\ ~crashed
    /\ ret.id \in windows

\* C5: the ids returned by successful creates, whatever opens, closes and
\* launches come between, are strictly increasing, hence distinct and never
\* the id of a destroyed window again; the first id is 1.
C5_IdsStrictlyIncreasing ==
    /\ \A i, j \in 1..Len(created) : i < j => created[i] < created[j]
    /\ created # <<>> => created[1] = 1
    /\ (ret.op = "create" /\ ret.some) => ret.id = created[Len(created)]
    /\ pc = "insert" => \A i \in 1..Len(created) : created[i] < local.id

C5_Witness ==
    /\ Len(created) >= 2
    /\ ~Allocated(created[1])
    /\ ret.op = "create"
    /\ ret.some

\* C6: once the id counter has reached its maximum, every create returns
\* the failure result and inserts no window, and the counter stays at the
\* maximum: it never wraps and no id is handed out again.
C6_ExhaustedCreateFails ==
    [][next_window_id = U64_MAX =>
          /\ next_window_id' = U64_MAX
          /\ pc = "idle" =>
                /\ windows' \subseteq windows
                /\ created' = created
                /\ DOMAIN win' = DOMAIN win
                /\ \A x \in LifeInputs.xs, y \in LifeInputs.ys,
                      w \in LifeInputs.ws, h \in LifeInputs.hs :
                      OpenCreate(x, y, w, h) =>
                          /\ ret' = [op |-> "create", some |-> FALSE]
                          /\ pc' = "idle"]_vars

C6_Witness ==
    /\ ret = [op |-> "create", some |-> FALSE]
    /\ next_window_id = U64_MAX
    /\ Len(created) = U64_MAX - 1

\* C7: every mutation of the Window Table runs inside a critical section
\* with interruption disabled, so that input delivery never interleaves
\* with a table mutation in progress.
C7_TableMutationInCriticalSection ==
    pc \in {"insert", "drop_remove"} => (~ints /\ cs > 0 /\ epc = "idle")

\* C8: an operation that enters a critical section (handle drop, launch,
\* event dispatch) holds it only while inside, and returns with the
\* interruption state that was in effect when it was entered.
C8_CriticalSectionLeft ==
    /\ cs = (IF pc \in {"drop_remove", "drop_end", "launch_scan", "launch_end"}
             THEN 1 ELSE 0)
            + (IF epc \in {"forward", "end"} THEN 1 ELSE 0)
    /\ (pc = "idle" /\ epc = "idle") => ints
    /\ epc \in {"redraw", "return"} => ints = elocal.entry

C8_Witness ==
    /\ ret.op = "drop"
    /\ epc = "return"
    /\ ~elocal.entry

\* C9: in one input-event dispatch the event is forwarded to the Session
\* exactly once, inside the critical section, and exactly one redraw pass
\* follows, started after the critical section has been left.
C9_ForwardOnceThenRedraw ==
    epc # "idle" =>
        /\ Len(elocal.forwards) = (IF epc = "forward" THEN 0 ELSE 1)
        /\ Len(elocal.draws) = (IF epc = "return" THEN 1 ELSE 0)
        /\ \A i \in 1..Len(elocal.forwards) :
              /\ elocal.forwards[i].cs = elocal.cs0 + 1
              /\ ~elocal.forwards[i].ints
        /\ \A i \in 1..Len(elocal.draws) : elocal.draws[i].cs = elocal.cs0

C9_Witness ==
    /\ epc = "return"
    /\ Len(elocal.draws) = 1
    /\ Len(elocal.forwards) = 1
    /\ elocal.forwards[1].to # 0

\* C10 as stated: the concatenation of the records returned by the Events
\* reads of a window is a prefix of the sequence of events pushed to it.
IsPrefix(a, b) == Len(a) <= Len(b) /\ SubSeq(b, 1, Len(a)) = a

C10_ReadsArePrefixOfPushes ==
    \A id \in Ids : IsPrefix(delivered[id], pushed[id])

\* C10 as amended: the records returned by the Events reads of a window,
\* concatenated, are a prefix of the events pushed to it less those the
\* store discarded on overflow: in push order, none twice, and with the
\* events still pending exactly the pushed events that were not discarded.
Survivors(id) == SelectSeq(pushed[id], LAMBDA e : e \notin dropped[id])

C10_ReadsArePrefixOfSurvivors ==
    \A id \in Ids :
        /\ IsPrefix(delivered[id], Survivors(id))
        /\ \A i, j \in 1..Len(delivered[id]) :
              i < j => delivered[id][i] < delivered[id][j]
        /\ Allocated(id) => delivered[id] \o win[id].events = Survivors(id)
        /\ dropped[id] = {} => IsPrefix(delivered[id], pushed[id])

C10_Witness ==
    \E id \in Ids :
        /\ Len(delivered[id]) >= 2
        /\ dropped[id] # {}
        /\ ret.op = "read"
        /\ ret.kind = "events"
        /\ ret.n = EventSize

\* C11: an Events read into a buffer of length L, on a window that exists,
\* completes in the one call without an error: it removes exactly
\* min(pending, L div EventSize) events, the oldest ones, from the window's
\* pending store and returns that count times EventSize; with nothing
\* pending, or with L smaller than one record, it returns 0 and removes
\* nothing.
C11_EventsReadDrainsMin ==
    [][\A h \in Slots, len \in FifoInputs.lens :
          (EventsRead(h, len) /\ ~Stale(h)) =>
              LET id == handles[h].id
                  pending == win[id].events
                  k == Min(Len(pending), len \div EventSize)
              IN /\ ret'.res = "ok"
                 /\ ret'.n = k * EventSize
                 /\ ret'.data = SubSeq(pending, 1, k)
                 /\ win'[id].events = SubSeq(pending, k + 1, Len(pending))
                 /\ (Len(pending) = 0 \/ len < EventSize) =>
                        (ret'.n = 0 /\ win' = win)
                 /\ pc' = "idle"
                 /\ ~crashed']_vars

\* a read of one record from a store that held two
C11_Witness ==
    /\ ret.op = "read"
    /\ ret.kind = "events"
    /\ ret.res = "ok"
    /\ ~ret.stale
    /\ ret.n = EventSize
    /\ Allocated(ret.id)
    /\ Len(win[ret.id].events) = 1
    /\ Len(delivered[ret.id]) = 1
    /\ nevents = 2

\* C12 as stated: a poll that has waited returns the event whose push ended
\* the wait, the first one pushed to the window since the call found
\* nothing pending.
C12_PollReturnsThatEvent ==
    (poll.pc = "returned" /\ poll.some /\ poll.waited) =>
        (/\ Len(pushed[poll.id]) > poll.seen
         /\ poll.event = pushed[poll.id][poll.seen + 1])

\* C12 as amended: poll blocks by yield-and-retry.  A read that returns 0
\* makes it yield and read again, never return; a read that returns a
\* record makes it return that record, the oldest event pending at the
\* read; a read that fails makes it return no event.  So once an event is
\* pending on the window being polled, and the process is scheduled after
\* every yield (no process is once the scheme has panicked), poll returns
\* an event.
PollWaiting == poll.pc \in {"read", "yield"}

C12_PollStep ==
    /\ PollRead =>
          /\ (ret'.res = "ok" /\ ret'.n = 0) =>
                (poll'.pc = "yield" /\ win' = win)
          /\ (ret'.res = "ok" /\ ret'.n > 0) =>
                /\ poll'.pc = "returned"
                /\ poll'.some
                /\ poll'.event = Head(win[poll.id].events)
                /\ win'[poll.id].events = Tail(win[poll.id].events)
          /\ ret'.res = "err" => (poll'.pc = "returned" /\ ~poll'.some)
    /\ PollYield => (poll'.pc = "read" /\ ret' = ret /\ win' = win)
    /\ (PollWaiting /\ ~PollWaiting') =>
          /\ PollRead
          /\ ret'.res # "ok" \/ ret'.n > 0

C12_PollYieldsUntilEvent ==
    /\ [][C12_PollStep]_vars
    /\ (PollWaiting /\ Allocated(poll.id) /\ win[poll.id].events # <<>>)
          ~> ((poll.pc = "returned" /\ poll.some) \/ crashed)

\* a poll that found nothing pending, yielded, and then returned an event
C12_Witness ==
    /\ poll.pc = "returned"
    /\ poll.some
    /\ poll.waited
    /\ poll.event = pushed[poll.id][poll.seen + 1]
    /\ ret.n = EventSize

\* C13: from a fresh dispatcher (cascade cursors 0), each create with
\* x <= 0 and y <= 0 advances the cascade cursor of each axis by 32 and
\* places the window at the cursor, an axis's cursor going back to 0 first
\* once cursor > display extent - window extent on that axis, each axis by
\* itself; the create (0, 0, 200, 150, "Test") on an empty session gives
\* window 1 at (32, 32).
C13_CascadeStep ==
    \A path \in PlaceInputs.addresses :
        LET a == CreateArgs(path)
            id == next_window_id
        IN (OpenCreateUrl(path) /\ a.x <= 0 /\ a.y <= 0) =>
              /\ next_x' = (IF next_x > DisplayWidth - a.w THEN 0 ELSE next_x) + 32
              /\ next_y' = (IF next_y > DisplayHeight - a.h THEN 0 ELSE next_y) + 32
              /\ pc' = "insert" =>
                    (win'[id].x = next_x' /\ win'[id].y = next_y')
              /\ (path = ExampleAddress /\ windows = {} /\ created = <<>>
                    /\ next_x = 0 /\ next_y = 0) =>
                    (/\ pc' = "insert"
                     /\ id = 1
                     /\ win'[1].x = 32 /\ win'[1].y = 32
                     /\ win'[1].w = 200 /\ win'[1].h = 150)

C13_CascadePlacement == [][C13_CascadeStep]_vars

\* two auto-placed windows, the second after a wrap of x alone
C13_Witness ==
    /\ created = <<1, 2>>
    /\ Allocated(1) /\ Allocated(2)
    /\ win[1].x = 32 /\ win[1].y = 32
    /\ win[2].w = 96
    /\ win[2].x = 32 /\ win[2].y = 64
    /\ next_x = 32 /\ next_y = 64

\* C14: auto-placement never puts the far edge of a window past the edge of
\* the display: an auto-placed window no larger than the display on an
\* axis is placed at p with p + window extent <= display extent.
C14_AutoPlacedOnDisplay ==
    [][\A path \in PlaceInputs.addresses :
          LET a == CreateArgs(path)
              id == next_window_id
          IN (OpenCreateUrl(path) /\ AutoPlaced(a.x, a.y) /\ pc' = "insert") =>
                /\ a.w <= DisplayWidth => win'[id].x + a.w <= DisplayWidth
                /\ a.h <= DisplayHeight => win'[id].y + a.h <= DisplayHeight]_vars

\* C15: a numeric field of a create address that is present but does not
\* parse gives the same window (position after placement, width, height)
\* as the address with the field left out, and no error.  Fields are
\* positional, so the field left out is the last one of its address.
C15_UnparsableAsOmitted ==
    [][\A path \in PlaceInputs.addresses :
          LET id == next_window_id
              b == CreateArgs(SubSeq(path, 1, Len(path) - 1))
              auto == AutoPlaced(b.x, b.y)
          IN (/\ OpenCreateUrl(path)
              /\ Len(path) \in 1..4
              /\ ~Parsable(path[Len(path)])
              /\ next_id(next_window_id).some) =>
                /\ pc' = "insert"
                /\ win'[id].w = b.w
                /\ win'[id].h = b.h
                /\ win'[id].x =
                      (IF auto THEN Cascade(next_x, DisplayWidth, b.w) ELSE b.x)
                /\ win'[id].y =
                      (IF auto THEN Cascade(next_y, DisplayHeight, b.h) ELSE b.y)]_vars

\* the bytes at offsets lo .. hi - 1 of the buffer are those of buf, from
\* its first on
RunIs(pixels, lo, hi, buf) ==
    \A o \in lo..(hi - 1) : PixelAt(pixels, o) = buf[o - lo + 1]

\* the buffers agree at every offset below size outside lo .. hi - 1
SameOutside(pixels, old, size, lo, hi) ==
    \A o \in 0..(size - 1) :
        (o < lo \/ o >= hi) => PixelAt(pixels, o) = PixelAt(old, o)

\* C16: a Content write of n bytes at cursor c copies exactly
\* k = min(buffer_len - c, n) bytes, the first k of the input, returns k,
\* moves the cursor to c + k and leaves buffer_len as it was; the other
\* n - k bytes go nowhere.
C16_ContentWriteClipped ==
    [][\A h \in Slots, buf \in ContentInputs.pixels :
          ContentWrite(h, buf) =>
              LET id == handles[h].id
                  c == seek[id]
                  k == Min(win[id].size - c, Len(buf))
              IN /\ ret'.res = "ok"
                 /\ ret'.n = k
                 /\ seek'[id] = c + k
                 /\ win'[id].size = win[id].size
                 /\ RunIs(win'[id].pixels, c, c + k, buf)
                 /\ SameOutside(win'[id].pixels, win[id].pixels,
                                win[id].size, c, c + k)]_vars

\* C17: a Content write of bytes B at cursor S with S + len(B) <= buffer_len
\* leaves the buffer as it was with the bytes at S .. S + len(B) - 1
\* replaced by B: every other byte, and the window's size, title and
\* pending events, are unchanged.
C17_ContentWriteFrame ==
    [][\A h \in Slots, buf \in ContentInputs.pixels :
          LET id == handles[h].id
              S == seek[id]
          IN (ContentWrite(h, buf) /\ S + Len(buf) <= win[id].size) =>
                /\ RunIs(win'[id].pixels, S, S + Len(buf), buf)
                /\ SameOutside(win'[id].pixels, win[id].pixels,
                               win[id].size, S, S + Len(buf))
                /\ DOMAIN win'[id].pixels \subseteq 0..(win[id].size - 1)
                /\ win' = [win EXCEPT ![id].pixels = win'[id].pixels]
                /\ order' = order
                /\ ret'.res = "ok"
                /\ ret'.n = Len(buf)]_vars

\* a write of <<6, 7>> at offset 1 over a buffer that held 5 at offsets 0
\* and 3
C17_Witness ==
    /\ ret.op = "write"
    /\ ret.kind = "content"
    /\ ret.res = "ok"
    /\ ret.n = 2
    /\ Allocated(ret.id)
    /\ seek[ret.id] = 3
    /\ win[ret.id].size = 4
    /\ win[ret.id].pixels = (0 :> 5) @@ (1 :> 6) @@ (2 :> 7) @@ (3 :> 5)

\* C18: after a Dimensions write of (w2, h2), every later Content write on
\* that window, wherever its cursor was before the resize or gets to after
\* it, is bounded by w2 * h2 * 4: it copies no byte at or beyond that
\* offset.  A window whose size is not the one it was created with has had
\* its size written; the bytes a write copies go to the offsets from the
\* cursor on.
CreatedSizes == {<<w, h>> : w \in ContentInputs.ws, h \in ContentInputs.hs}

C18_WriteBoundedAfterResize ==
    [][\A h \in Slots, buf \in ContentInputs.pixels :
          LET id == handles[h].id
              w2 == win[id].w
              h2 == win[id].h
          IN (ContentWrite(h, buf) /\ <<w2, h2>> \notin CreatedSizes) =>
                (ret'.n > 0 => seek[id] + ret'.n <= w2 * h2 * 4)]_vars

\* C19: the buffer of a live window is always w * h * 4 bytes long for its
\* last committed size (w, h): that of the create arguments at first,
\* new_w * new_h * 4, all zero, after a Dimensions write of (new_w, new_h),
\* and no other call changes the length or the size.
C19_LengthOfCommittedSize ==
    \A id \in Ids : Allocated(id) => win[id].size = win[id].w * win[id].h * 4

C19_ResizeStep ==
    /\ \A h \in Slots, len \in ContentInputs.lens, d \in ContentInputs.dims :
          (DimensionsWrite(h, len, d) /\ len >= DimSize) =>
              LET id == handles[h].id
              IN /\ win'[id].w = d[1]
                 /\ win'[id].h = d[2]
                 /\ win'[id].size = d[1] * d[2] * 4
                 /\ win'[id].pixels = Blank
                 /\ ret'.res = "ok"
    /\ \A x \in ContentInputs.xs, y \in ContentInputs.ys,
          w \in ContentInputs.ws, h \in ContentInputs.hs :
          (OpenCreate(x, y, w, h) /\ pc' = "insert") =>
              /\ win'[next_window_id].size = w * h * 4
              /\ win'[next_window_id].pixels = Blank
    /\ \A id \in Ids :
          (/\ Allocated(id)
           /\ <<win'[id].w, win'[id].h, win'[id].size>>
                 # <<win[id].w, win[id].h, win[id].size>>) =>
              \E h \in Slots, len \in ContentInputs.lens, d \in ContentInputs.dims :
                  /\ DimensionsWrite(h, len, d)
                  /\ handles[h].id = id

C19_BufferLength == []C19_LengthOfCommittedSize /\ [][C19_ResizeStep]_vars

\* a window created 1 x 1 and written on, after a Dimensions write of (0, 1)
C19_Witness ==
    /\ ret.op = "write"
    /\ ret.kind = "dimensions"
    /\ ret.res = "ok"
    /\ Allocated(ret.id)
    /\ win[ret.id].w = 0
    /\ win[ret.id].h = 1
    /\ win[ret.id].size = 0
    /\ win[ret.id].pixels = Blank
    /\ seek[ret.id] = 3

\* C20: a Content seek from Start, Current or End sets the cursor to the
\* requested position (offset, cursor + offset, buffer_len + offset)
\* brought into 0 .. buffer_len, and returns it: a position below 0 gives
\* 0, one past the end gives buffer_len; nothing else changes.
Clamped(v, end) == IF v < 0 THEN 0 ELSE IF v > end THEN end ELSE v

CursorOf(h) == seek[handles[h].id]

C21_CursorPerHandle ==
    [][\A h \in Slots :
          (/\ IsOpen(h, "content")
           /\ ~Stale(h)
           /\ handles'[h] = handles[h]
           /\ CursorOf(h)' # CursorOf(h)) =>
              /\ ret'.op \in {"seek", "write"}
              /\ ret'.kind = "content"
              /\ ret'.h = h]_vars

\* C22: the title round-trips.  A write of title_bytes to a Title view
\* returns len(title_bytes); a read that follows it with no other write of
\* the title in between, into a buffer of at least len(title_bytes) bytes,
\* succeeds, returns len(title_bytes) and yields exactly title_bytes.
\* win[id].wrote is the bytes of the last write of the title of window id.
TitleWriteReturns(h, bytes) ==
    (TitleWrite(h, bytes) /\ ~Stale(h)) =>
        ret'.res = "ok" /\ ret'.n = Len(bytes)

RECURSIVE WellFormed(_)
WellFormed(bytes) ==
    \/ bytes = <<>>
    \/ LET n == SeqLen(bytes[1])
       IN /\ n > 0
          /\ n <= Len(bytes)
          /\ n > 1 => bytes[2] \in Second(bytes[1])
          /\ \A i \in 3..n : Continuation(bytes[i])
          /\ WellFormed(SubSeq(bytes, n + 1, Len(bytes)))

Replacement == <<239, 191, 189>>

Exact(bytes) ==
    /\ WellFormed(bytes)
    /\ \A i \in 1..(Len(bytes) - 2) : SubSeq(bytes, i, i + 2) # Replacement

C23_ShortTitleRead ==
    [][\A h \in Slots, len \in ViewInputs.lens :
          (/\ TitleRead(h, len)
           /\ ~Stale(h)
           /\ len < Len(win[handles[h].id].title)) =>
              /\ ret'.res = "err"
              /\ ret'.n = 0
              /\ ret'.data = <<>>
              /\ win' = win]_vars

C23_Witness ==
    /\ ret.op = "read"
    /\ ret.kind = "title"
    /\ ret.res = "err"
    /\ ~ret.freed
    /\ Len(win[ret.id].title) = 2

\* C24: sync on a Title, Events or Dimensions view returns success and
\* changes no state (a no-op success); only sync on a Content view asks
\* for a redraw.  The three views do not define sync: the call is the
\* trait's default method.
C24_SyncIsNoOpSuccess ==
    [][\A h \in Slots :
          (/\ handles[h] # NoHandle
           /\ handles[h].kind \in {"title", "events", "dimensions"}
           /\ Unsupported(h, "sync")) =>
              /\ ret'.res = "ok"
              /\ ret'.data = <<>>
              /\ win' = win
              /\ seek' = seek
              /\ windows' = windows
              /\ handles' = handles]_vars

\* C25: a call a view does not support (read on Content; write on Events;
\* seek on Title, Events or Dimensions) returns an error and leaves the
\* window's size, title, pixel buffer and pending events, and every
\* Content cursor, unchanged.
NotSupported ==
    {<<"content", "read">>, <<"events", "write">>, <<"title", "seek">>,
     <<"events", "seek">>, <<"dimensions", "seek">>}

C25_UnsupportedFails ==
    [][\A h \in Slots, op \in Ops :
          (/\ handles[h] # NoHandle
           /\ <<handles[h].kind, op>> \in NotSupported
           /\ Unsupported(h, op)) =>
              /\ ret'.res = "err"
              /\ ret'.n = 0
              /\ ret'.data = <<>>
              /\ win' = win
              /\ seek' = seek]_vars

\* a seek on the Title view of a window that has a title, pixels drawn and
\* a Content cursor moved off 0 has failed
C25_Witness ==
    /\ ret.op = "seek"
    /\ ret.kind = "title"
    /\ ret.res = "err"
    /\ ~ret.freed
    /\ win[ret.id].title # <<>>
    /\ win[ret.id].pixels # Blank
    /\ seek[ret.id] > 0

\* C26: a read of the Dimensions view into a buffer of at least 16 bytes
\* returns 16 and yields the window's current (width, height); the resize
\* to the same size that it commits changes nothing observable: the
\* window's size, the length of its pixel buffer and the contents of the
\* pixel buffer are the same after the read as before it.
C26_DimensionsReadNoOp ==
    [][\A h \in Slots, len \in ContentInputs.lens :
          (/\ DimensionsRead(h, len)
           /\ ~Stale(h)
           /\ len >= DimSize) =>
              LET id == handles[h].id
              IN /\ ret'.res = "ok"
                 /\ ret'.n = DimSize
                 /\ ret'.data = <<win[id].w, win[id].h>>
                 /\ win'[id].w = win[id].w
                 /\ win'[id].h = win[id].h
                 /\ win'[id].size = win[id].size
                 /\ win'[id].pixels = win[id].pixels]_vars

\* C27: launch scans the packages in order and launches at most one
\* application: the first package with an accept pattern matching the
\* path, with the path as its argument.  A launch that fails is not tried
\* again on a later package; when no package matches nothing is launched.
\* In every case launch returns no handle and leaves the Window Table and
\* the id counter unchanged.  ret.spawned is the spawns the call made.
Accepting(path) == {i \in 1..Len(packages) : Accepted(packages[i], path)}

LaunchedFirst ==
    ret.op = "launch" =>
        /\ ~ret.some
        /\ Len(ret.spawned) <= 1
        /\ Accepting(ret.path) = {} => ret.spawned = <<>>
        /\ Accepting(ret.path) # {} =>
              /\ Len(ret.spawned) = 1
              /\ ret.spawned[1].arg = ret.path
              /\ \E i \in Accepting(ret.path) :
                    /\ \A j \in Accepting(ret.path) : i <= j
                    /\ ret.spawned[1].binary = packages[i].binary

C27_LaunchFirstMatch ==
    /\ []LaunchedFirst
    /\ [][(local.op = "launch" \/ local'.op = "launch") =>
             /\ windows' = windows
             /\ next_window_id' = next_window_id
             /\ handles' = handles
             /\ win' = win]_vars

\* with a window in the table, the launch of /d.t failed in the editor
\* and was not tried in the viewer, which accepts the path too
C27_Witness ==
    /\ ret.op = "launch"
    /\ packages = Packages
    /\ windows # {}
    /\ Accepting(ret.path) = {1, 3}
    /\ ret.spawned = <<[binary |-> "editor", arg |-> ret.path, ok |-> FALSE]>>

\* C28: an accept pattern of the form `prefix*` matches a path iff the
\* path starts with prefix, one of the form `*suffix` matches iff the path
\* ends with suffix (a pattern with `*` at both ends is of both forms and
\* matches as either), and a pattern with no `*` at either end matches
\* nothing.  `*.txt` matches /docs/readme.txt, `/bin/*` matches /bin/ls,
\* and neither matches /etc/passwd.  A session with one package of one
\* pattern launches the package exactly for the paths the pattern matches.
HasPrefix(path, s) == \E k \in 0..Len(path) : SubSeq(path, 1, k) = s
HasSuffix(path, s) == \E k \in 0..Len(path) : SubSeq(path, k + 1, Len(path)) = s

Matches(accept, path) ==
    /\ accept # <<>>
    /\ \/ accept[Len(accept)] = "*"
          /\ HasPrefix(path, SubSeq(accept, 1, Len(accept) - 1))
       \/ accept[1] = "*" /\ HasSuffix(path, Tail(accept))

C28_PatternMatching ==
    ret.op = "launch" =>
        /\ (Len(packages) = 1 /\ Len(packages[1].accepts) = 1) =>
              (ret.spawned # <<>> <=> Matches(packages[1].accepts[1], ret.path))
        /\ packages = ExamplePackages =>
              /\ ret.path = Readme =>
                    (Len(ret.spawned) = 1 /\ ret.spawned[1].binary = "text")
              /\ ret.path = BinLs =>
                    (Len(ret.spawned) = 1 /\ ret.spawned[1].binary = "bin")
              /\ ret.path = Passwd => ret.spawned = <<>>

\* the package of `*.txt` has been launched for /docs/readme.txt
C28_Witness ==
    /\ ret.op = "launch"
    /\ packages = ExamplePackages
    /\ ret.path = Readme
    /\ Len(ret.spawned) = 1
    /\ ret.spawned[1].binary = "text"

\* C29: path() round-trips.  For every handle of a live window, path()
\* returns the canonical address of the handle, and opening that address
\* (or, for a whole-window handle, the path with the name of a view
\* appended, as the client library does) resolves to the same window id
\* and the same kind of view (the named view).
C29_PathRoundTrip ==
    [][\A h \in Slots :
          (handles[h] # NoHandle /\ Allocated(handles[h].id)) =>
              /\ PathOpen(h, <<>>) =>
                    /\ ret'.some
                    /\ handles'[ret'.h] = handles[h]
              /\ \A k \in DOMAIN Spelling :
                    PathOpen(h, Spelling[k]) =>
                       /\ ret'.some
                       /\ handles'[ret'.h] = [kind |-> k, id |-> handles[h].id]]_vars

\* C30: auto-placement is triggered by either coordinate.  A create with
\* x > 0 and y > 0 makes the window exactly at (x, y) and leaves both
\* cascade cursors unchanged; a create with x <= 0 or y <= 0 replaces both
\* coordinates, a positive supplied one too, by the cascade cursors, and
\* both cursors take their cascade step (back to 0 first when past the
\* display, then 32 further).
C30_PlacementStep ==
    \A path \in PlaceInputs.addresses :
        LET a == CreateArgs(path)
            id == next_window_id
        IN OpenCreateUrl(path) =>
              IF a.x > 0 /\ a.y > 0
              THEN /\ next_x' = next_x
                   /\ next_y' = next_y
                   /\ pc' = "insert" => (win'[id].x = a.x /\ win'[id].y = a.y)
              ELSE /\ next_x' =
                         (IF next_x > DisplayWidth - a.w THEN 0 ELSE next_x)
                             + CascadeStep
                   /\ next_y' =
                         (IF next_y > DisplayHeight - a.h THEN 0 ELSE next_y)
                             + CascadeStep
                   /\ pc' = "insert" =>
                         (win'[id].x = next_x' /\ win'[id].y = next_y')

C30_EitherCoordinate == [][C30_PlacementStep]_vars

\* the window asked for at (-8, 64) stands at the cursors (32, 32), and
\* the window asked for at (8, 16) stands there
C30_Witness ==
    \E i, j \in Ids :
        /\ Allocated(i) /\ Allocated(j)
        /\ win[i].w = 64 /\ win[i].h = 64
        /\ win[i].x = 32 /\ win[i].y = 32
        /\ win[j].x = 8 /\ win[j].y = 16
        /\ next_x = 32 /\ next_y = 32

\* C31: for every Content view 0 <= cursor <= buffer_len holds in every
\* reachable state, after any sequence of Content seeks, Content writes
\* and Dimensions writes, one that shrinks the buffer below the cursor
\* included; hence buffer_len - cursor in a Content write never
\* underflows.
C31_CursorWithinBuffer ==
    \A id \in Ids :
        Allocated(id) => (0 <= seek[id] /\ seek[id] <= win[id].size)

\* C32: closing a handle affects only the window with the handle's own
\* id.  The close removes the table entry of that id and no other and
\* leaves every other window as it was; the close of a handle whose
\* window has already been removed from the table removes nothing; and
\* since ids are never reused, the id of every handle is below the id
\* counter, so that no window created later can have it.  local.present
\* records whether the id was in the table when the close began.
HandleIdsUsed ==
    /\ \A h \in Slots : handles[h] # NoHandle => handles[h].id < next_window_id
    /\ pc \in {"drop_remove", "drop_end"} => local.id < next_window_id

C32_CloseStep ==
    /\ pc = "drop_remove" =>
          /\ windows' = windows \ {local.id}
          /\ ~local.present => windows' = windows
          /\ seek' = seek
    /\ pc = "drop_end" => windows' = windows
    /\ pc \in {"drop_remove", "drop_end"} =>
          \A id \in Ids \ {local.id} : win'[id] = win[id]

C32_CloseOwnWindow == []HandleIdsUsed /\ [][C32_CloseStep]_vars

\* the close of a handle whose window had left the table has done its
\* removal, and a window created later is still in the table
C32_Witness ==
    /\ pc = "drop_end"
    /\ ~local.present
    /\ \E id \in windows : id > local.id /\ Allocated(id)

\* C33: a create that fails because the id space is exhausted leaves the
\* whole dispatcher state unchanged: the Window Table, the id counter and
\* both cascade cursors have the same values after the failed call as
\* before it.
C33_FailedCreateStep ==
    \A path \in PlaceInputs.addresses :
        (OpenCreateUrl(path) /\ ret'.op = "create" /\ ~ret'.some) =>
            /\ windows' = windows
            /\ next_window_id' = next_window_id
            /\ next_x' = next_x
            /\ next_y' = next_y

C33_FailedCreateChangesNothing == [][C33_FailedCreateStep]_vars

\* C34: in every reachable state each key of the Window Table is an id
\* that a successful create returned, so 1 <= key < next_window_id.  The
\* table gains an entry only through a successful create, exactly one
\* entry, keyed by the id returned; it loses one only through the close
\* of a handle; opens of sub-resources, launches and the dispatch of
\* events never add or remove entries.
KeysCreated ==
    \A key \in windows :
        /\ \E i \in 1..Len(created) : created[i] = key
        /\ 1 <= key
        /\ key < next_window_id

C34_TableStep ==
    /\ windows' # windows =>
          \/ /\ pc = "insert" /\ pc' = "idle"
             /\ ret'.op = "create" /\ ret'.some
             /\ ret'.id \notin windows
             /\ windows' = windows \cup {ret'.id}
          \/ /\ pc = "drop_remove"
             /\ windows' = windows \ {local.id}
    /\ (ret' # ret /\ ret'.op \in {"open", "launch"}) => windows' = windows
    /\ (epc # "idle" /\ epc' # epc) => windows' = windows

C34_TableKeys == []KeysCreated /\ [][C34_TableStep]_vars

\* after two creates, a close, an open of a view, and an event
\* dispatched, the table holds the second id
C34_Witness ==
    /\ created = <<1, 2>>
    /\ windows = {2}
    /\ ret.op = "open"
    /\ ret.some
    /\ nevents > 0
    /\ epc = "idle"

\* C35: the constructor of the client handle is all-or-nothing.  It
\* returns a handle only if the create and all four opens (title,
\* content, events, dimensions) succeeded, the handle then holding the
\* five open files of the one window; and when it returns nothing every
\* handle it had opened is closed and no window of that attempt remains
\* in the Window Table.
C35_AllOrNothing ==
    ctor.pc = "returned" =>
        IF ctor.some
        THEN /\ ctor.id \in windows
             /\ handles[ctor.file] = [kind |-> "window", id |-> ctor.id]
             /\ Len(ctor.opened) = Len(ViewOrder)
             /\ \A i \in 1..Len(ViewOrder) :
                   /\ ctor.opened[i].ok
                   /\ handles[ctor.opened[i].h] =
                         [kind |-> ViewOrder[i], id |-> ctor.id]
        ELSE /\ ctor.id \notin windows
             /\ ctor.file # 0 => handles[ctor.file] = NoHandle
             /\ \A i \in 1..Len(ctor.opened) :
                   ctor.opened[i].ok => handles[ctor.opened[i].h] = NoHandle
             /\ \A h \in Slots : handles[h] = NoHandle

\* the constructor has returned nothing after its create and three of
\* its opens succeeded and one failed
C35_Witness ==
    /\ ctor.pc = "returned"
    /\ ~ctor.some
    /\ ctor.id = 1
    /\ Len(ctor.opened) = 4
    /\ ~ctor.opened[2].ok
    /\ ctor.opened[1].ok /\ ctor.opened[3].ok /\ ctor.opened[4].ok
    /\ ~Allocated(1)


(* ------------------------------- C36 --------------------------------- *)
\* the first argument of the line, after the variables are replaced
CommandOf(line) ==
    IF Explode(line, shell.variables) = <<>> THEN <<>>
    ELSE Explode(line, shell.variables)[1]

\* the line is a command of the shell or a variable assignment, and it has
\* done what such a line does
TookEffect ==
    /\ CommandOf(shell'.line) \notin {<<>>, If, Else, Fi}
    /\ shell'.effect \in {"set", "run", "exit"}

EveryModeTrue == \A i \in 1..Len(shell.modes) : shell.modes[i]

C36_ShellStep ==
    /\ TookEffect => EveryModeTrue /\ shell'.modes = shell.modes
    /\ CommandOf(shell'.line) = If =>
           /\ Len(shell'.modes) = Len(shell.modes) + 1
           /\ Tail(shell'.modes) = shell.modes
    /\ CommandOf(shell'.line) = Else /\ shell.modes # <<>> =>
           shell'.modes = <<~shell.modes[1]>> \o Tail(shell.modes)
    /\ CommandOf(shell'.line) = Fi /\ shell.modes # <<>> =>
           shell'.modes = Tail(shell.modes)
    /\ CommandOf(shell'.line) \in {Else, Fi} /\ shell.modes = <<>> =>
           shell'.modes = <<>> /\ shell'.effect = "syntax error"

\* C36: in the shell a command or a variable assignment takes effect only
\* when every entry of the mode stack is true; `if` always pushes one
\* entry, `else` negates the innermost entry alone, `fi` pops the innermost
\* entry alone, and `else` or `fi` on an empty stack report a syntax error
\* and leave the stack empty.
C36_ModesGateLines == [][shell' # shell => C36_ShellStep]_vars

====
